---- MODULE Spec2Model ----
(***************************************************************************)
(* AgentMail: the node runtime (Router, Mailbox, background loops, HTTP    *)
(* glue) of two nodes and the relay they share.                            *)
(*                                                                         *)
(* A coroutine runs atomically between two awaits; every await of a        *)
(* network call is one step of the model, which holds the remote handler   *)
(* (it has no await of its own) and the caller's continuation up to its    *)
(* next await.  Keys are named by their owner; keys are well formed but    *)
(* where a specification hands the code text that is no key.               *)
(***************************************************************************)
EXTENDS Integers, Sequences, FiniteSets, TLC

\* ------------------------------------------------------------- bounds
MaxMsgs == 2          \* envelopes composed by send in one run
MaxAttempts == 2      \* the attempt counter saturates here (unbounded in the code)
MaxBad == 1           \* malformed blobs a foreign client deposits at the relay
MaxNow == 3           \* the relay's clock stops here

\* ---------------------------------------------------------- constants
Port == 7443          \* NodeConfig.port
RelayOnlyPort == 0    \* port of a peer cached from the relay directory
DEFAULT_TTL == 604800 \* seconds a deposit is held when the request names no ttl_sec

Nodes == {"alice", "bob"}
Senders == {"alice"}        \* the nodes whose /v0/send is called
Recipients == {"bob"}       \* the nodes that are written to
EncryptChoices == {TRUE}    \* SendRequest.encrypt, by default True
MsgIds == 1..MaxMsgs
BadIds == {-k : k \in 1..MaxBad}     \* msg_ids of malformed relay rows

NoPeer == [node_id |-> [fp |-> "none"]]
NoRec == [direction |-> "none", writes |-> 0]
NoEnv == [msg_id |-> 0]
Garbage == [msg_id |-> 0, malformed |-> TRUE]

\* An address is name@name.local (full) or a bare name.
Address(name) == [local |-> name, domain |-> name]
BareName(name) == [local |-> name, domain |-> ""]
Addresses == {Address(n) : n \in Nodes} \cup {BareName(n) : n \in Nodes}
Destinations == {Address(n) : n \in Recipients} \cup {BareName(n) : n \in Recipients}

\* ------------------------------------------------------------ Identity
pubkey_b64(n) == [key |-> "verify", owner |-> n]
encrypt_pubkey_b64(n) == [key |-> "curve", owner |-> n]
\* first 16 characters of the URL-safe base64 of the verify key
fingerprint(n) == [fp |-> n]
\* Base64 text. A key or a signature is written as its canonical text;
\* Relaxed(text) is another text of the same bytes (characters outside the
\* alphabet added, or other unused bits in the last character), NotBase64 a
\* text b64decode raises on (incorrect padding).
Relaxed(text) ==
    [f \in DOMAIN text \cup {"relaxed"} |-> IF f = "relaxed" THEN TRUE ELSE text[f]]
NotBase64 == [invalid |-> TRUE]
Decodes(text) == "invalid" \notin DOMAIN text
\* b64decode with validate=False: the bytes, whatever the spelling
b64decode(text) == [f \in DOMAIN text \ {"relaxed"} |-> text[f]]

\* The identity file. A seed stands for the SigningKey it makes and, as the
\* owner of keys and fingerprint, for the Identity built on it: each node's
\* own, and those SigningKey.generate may draw later.
FreshSeeds == {"k1", "k2"}
Seeds == Nodes \cup FreshSeeds
NoFile == [exists |-> FALSE]
NoIdentity == [seed |-> "none", created |-> FALSE]

\* Identity.save: the JSON it writes
save(seed) ==
    [exists |-> TRUE, signing_seed |-> [seed |-> seed], verify_key |-> pubkey_b64(seed),
     encrypt_pubkey |-> encrypt_pubkey_b64(seed)]

\* Identity.from_file: the seed b64decode gives
from_file(file) == b64decode(file.signing_seed).seed

\* load_or_create without the look at the path: a new identity every start
load_or_create_anew(file, seed) ==
    [identity |-> [seed |-> seed, created |-> TRUE], file |-> save(seed)]

\* Identity.load_or_create on what the path holds, generate drawing seed:
\* the identity returned and what the path holds afterwards
load_or_create(file, seed) ==
    IF file.exists
    THEN [identity |-> [seed |-> from_file(file), created |-> FALSE], file |-> file]
    ELSE [identity |-> [seed |-> seed, created |-> TRUE], file |-> save(seed)]

\* Router._deposit_to_relay, line 145: urlsafe_b64encode(b64decode(pubkey))[:16]
FingerprintOfKey(pubkey) == [fp |-> b64decode(pubkey).owner]
\* a signature that covers nothing
sign_nothing(n, data) == [signer |-> n, data |-> <<>>]
sign(n, data) == [signer |-> n, data |-> data]
\* Identity.verify: False on anything b64decode, VerifyKey or vk.verify raise
verify(data, signature, pubkey) ==
    /\ Decodes(signature)
    /\ Decodes(pubkey)
    /\ LET sig == b64decode(signature)
           vk == b64decode(pubkey)
       IN  /\ "signer" \in DOMAIN sig
           /\ "owner" \in DOMAIN vk
           /\ vk.key = "verify"
           /\ sig.signer = vk.owner
           /\ sig.data = data
\* sealed box to the holder of the private half of encrypt_pubkey
encrypt_for(plaintext, encrypt_pubkey) == [sealed_to |-> encrypt_pubkey.owner, plain |-> plaintext]
CanDecrypt(n, body) == "sealed_to" \in DOMAIN body /\ body.sealed_to = n
\* signature: Optional[str] = None
NoSignature == [signer |-> "none", data |-> <<>>]

\* ------------------------------------------------------------- models
MessagePayload(intent, subject, body) == [intent |-> intent, subject |-> subject, body |-> body]
PlainBody == [text |-> "ping"]
\* MessagePayload.model_validate_json accepts the decrypted bytes
IsPayload(plain) == "intent" \in DOMAIN plain

\* msg_id doubles as sent_at: ids are handed out in creation order
MessageEnvelope(id, from, to, payload, signature) ==
    [msg_id |-> id, from_addr |-> from, to_addr |-> to, sent_at |-> id,
     signature |-> signature, encrypted |-> FALSE, payload |-> payload]

PeerInfo(node_id, name, address, host, port, pk, epk) ==
    [node_id |-> node_id, node_name |-> name, address |-> address, host |-> host,
     port |-> port, pubkey |-> pk, encrypt_pubkey |-> epk]

\* ------------------------------------------------------------- Mailbox
\* INSERT OR IGNORE in place of INSERT OR REPLACE: the first row stays
store_message_ignore(lg, envelope, direction, status) ==
    IF lg[envelope.msg_id].direction # "none" THEN lg
    ELSE [lg EXCEPT ![envelope.msg_id] =
            [direction |-> direction, status |-> status, envelope |-> envelope,
             writes |-> 1]]

\* messages table: a function msg_id -> row (msg_id is the primary key).
\* INSERT OR REPLACE makes a new row (new rowid, new created_at): writes
\* counts the rows the msg_id has had.
store_message(lg, envelope, direction, status) ==
    [lg EXCEPT ![envelope.msg_id] =
        [direction |-> direction, status |-> status, envelope |-> envelope,
         writes |-> lg[envelope.msg_id].writes + 1]]

get_message(lg, msg_id) == lg[msg_id]

\* peers table: a set of rows, node_id the primary key (INSERT OR REPLACE)
upsert_peer(ps, peer) == {p \in ps : p.node_id # peer.node_id} \cup {peer}

get_peer_by_address(ps, address) ==
    IF \E p \in ps : p.address = address
    THEN CHOOSE p \in ps : p.address = address
    ELSE NoPeer

Without(ob, msg_id) == SelectSeq(ob, LAMBDA e : e.msg_id # msg_id)

\* outbox_queue table in rowid order: INSERT OR REPLACE deletes the old row
\* of the msg_id and appends the new one with attempts 0
queue_outbox(ob, envelope) ==
    Append(Without(ob, envelope.msg_id),
           [msg_id |-> envelope.msg_id, to_addr |-> envelope.to_addr,
            envelope_json |-> envelope, attempts |-> 0, status |-> "pending"])

\* ORDER BY rowid DESC
RECURSIVE Reversed(_)
Reversed(q) == IF q = <<>> THEN <<>> ELSE Append(Reversed(Tail(q)), Head(q))
get_pending_outbox_desc(ob) == Reversed(SelectSeq(ob, LAMBDA e : e.status = "pending"))

\* the SELECT without its WHERE status = 'pending'
get_pending_outbox_all(ob) == ob

get_pending_outbox(ob) == SelectSeq(ob, LAMBDA e : e.status = "pending")

\* the UPDATE without its SET status
mark_outbox_sent_noop(ob, msg_id) == ob

mark_outbox_sent(ob, msg_id) ==
    [k \in DOMAIN ob |->
        IF ob[k].msg_id = msg_id THEN [ob[k] EXCEPT !.status = "sent"] ELSE ob[k]]

mark_outbox_failed(ob, msg_id, attempts) ==
    [k \in DOMAIN ob |->
        IF ob[k].msg_id = msg_id
        THEN [ob[k] EXCEPT !.status = "pending", !.attempts = attempts]
        ELSE ob[k]]

\* ---------------------------------------------------------- RelayStore
\* held_messages in rowid order; msg_id is the primary key, so INSERT OR
\* REPLACE deletes the row the msg_id had; t is time.time() of the relay
RelayDeposit(hm, req, t) ==
    Append(SelectSeq(hm, LAMBDA r : r.msg_id # req.msg_id),
           [msg_id |-> req.msg_id,
            recipient_fingerprint |-> req.recipient_fingerprint,
            sender_fingerprint |-> req.sender_fingerprint,
            encrypted_envelope |-> req.encrypted_envelope,
            deposited_at |-> t,
            expires_at |-> t + req.ttl_sec])

\* ORDER BY deposited_at ASC: rows of equal deposited_at stay in rowid order
OrderByDepositedAt(rows) ==
    LET Before(j, k) ==
            \/ rows[j].deposited_at < rows[k].deposited_at
            \/ rows[j].deposited_at = rows[k].deposited_at /\ j <= k
        Rank(k) == Cardinality({j \in DOMAIN rows : Before(j, k)})
    IN  [i \in DOMAIN rows |-> rows[CHOOSE k \in DOMAIN rows : Rank(k) = i]]

\* the columns pickup selects
RelayMessage(r) ==
    [msg_id |-> r.msg_id, sender_fingerprint |-> r.sender_fingerprint,
     encrypted_envelope |-> r.encrypted_envelope,
     deposited_at |-> r.deposited_at, expires_at |-> r.expires_at]

\* fetchall: the selected columns of the rows in the order of the query
Fetched(rows) ==
    CHOOSE messages \in
        {[k \in DOMAIN sorted |-> RelayMessage(sorted[k])] :
            sorted \in {OrderByDepositedAt(selected) : selected \in {rows}}} : TRUE

\* pickup without its "expires_at > ?"
RelayPickupExpired(hm, recipient_fingerprint, since, t) ==
    LET rows == SelectSeq(hm, LAMBDA r :
                    /\ r.recipient_fingerprint = recipient_fingerprint
                    /\ r.deposited_at > since)
    IN  Fetched(rows)

RelayPickup(hm, recipient_fingerprint, since, t) ==
    LET rows == SelectSeq(hm, LAMBDA r :
                    /\ r.recipient_fingerprint = recipient_fingerprint
                    /\ r.deposited_at > since
                    /\ r.expires_at > t)
    IN  Fetched(rows)

\* ack without its "AND recipient_fingerprint = ?"
RelayAckAnyRecipient(hm, msg_ids, recipient_fingerprint) ==
    SelectSeq(hm, LAMBDA r : r.msg_id \notin msg_ids)

RelayAck(hm, msg_ids, recipient_fingerprint) ==
    SelectSeq(hm, LAMBDA r :
        ~(r.msg_id \in msg_ids /\ r.recipient_fingerprint = recipient_fingerprint))

\* cur.rowcount of the DELETE of ack; 0 without a statement on an empty list
RelayAckCount(hm, msg_ids, recipient_fingerprint) ==
    IF msg_ids = {} THEN 0
    ELSE Cardinality({k \in DOMAIN hm :
            hm[k].msg_id \in msg_ids
            /\ hm[k].recipient_fingerprint = recipient_fingerprint})

\* cleanup with "<=" in place of "<"
RelayCleanupExpiredEarly(hm, t) == SelectSeq(hm, LAMBDA r : ~(r.expires_at <= t))

\* RelayStore.cleanup_expired: the rows it leaves
RelayCleanupExpired(hm, t) == SelectSeq(hm, LAMBDA r : ~(r.expires_at < t))

\* The names a client may send: the node names, and each with a capital.
Capital == [alice |-> "Alice", bob |-> "Bob"]
Names == Nodes \cup {Capital[n] : n \in Nodes}

\* str.lower
lower(name) == IF name \in Nodes THEN name ELSE CHOOSE n \in Nodes : Capital[n] = name

\* register that keeps the name as it was sent
RelayRegisterAsSent(reg, name, n) ==
    [reg EXCEPT ![name] =
        [fingerprint |-> fingerprint(n), pubkey |-> pubkey_b64(n),
         encrypt_pubkey |-> encrypt_pubkey_b64(n)]]

\* RelayStore.register: INSERT OR REPLACE under name.lower()
RelayRegister(reg, name, n) ==
    [reg EXCEPT ![lower(name)] =
        [fingerprint |-> fingerprint(n), pubkey |-> pubkey_b64(n),
         encrypt_pubkey |-> encrypt_pubkey_b64(n)]]

NoEntry == [fingerprint |-> [fp |-> "none"]]
\* RelayStore.lookup: the row WHERE name = name.lower(), NoEntry for None
RelayLookup(reg, name) == reg[lower(name)]

\* ------------------------------------------------------------- state
VARIABLES
    relay_url,   \* node -> BOOLEAN: NodeConfig.relay_url is set
    link,        \* node -> "up" | "slow" | "down": how its HTTP server answers
    relay_up,    \* the relay answers
    log,         \* node -> messages table
    peers,       \* node -> peers table
    outbox,      \* node -> outbox_queue table in rowid order
    held,        \* relay: held_messages in deposited_at order
    registry,    \* relay: name -> directory row
    next_id,     \* the next msg_id new_msg_id hands out
    sends,       \* msg_id -> the Router.send call that composed it
    retry,       \* node -> the retry_loop task
    pull,        \* node -> the relay_pull_loop task
    dispatched,  \* node -> msg_ids in the order a peer or the relay accepted them
    bad,         \* malformed blobs deposited so far
    now,         \* relay: time.time()
    client,      \* the last request or event from outside the nodes, and its answer
    swept,       \* relay: time.time() of the last cleanup_expired, 0 before the first
    identity_file,  \* node -> what config.identity_path holds, NoFile when nothing
    identity     \* node -> the seed of the Identity its process loaded, "none" when stopped

vars == <<relay_url, link, relay_up, log, peers, outbox, held, registry, next_id,
          sends, retry, pull, dispatched, bad, now, client, swept, identity_file,
          identity>>

\* flip tells a request from the same request made before
NoCall == [op |-> "none", flip |-> FALSE]

\* lookup: _lookup_from_relay gave a peer ("hit") or None ("miss"); "none"
\* when it was not called
NoSend == [pc |-> "none", node |-> "none", envelope |-> NoEnv, peer |-> NoPeer,
           encrypt |-> FALSE, lookup |-> "none", route |-> <<>>, final |-> NoRec,
           response |-> [status |-> "none"]]

\* reachable: every entry of this tick so far had a peer that answered 200
Sleeping == [pc |-> "sleep", pending |-> <<>>, i |-> 1, peer |-> NoPeer, reachable |-> TRUE]
\* known: the picked-up msg_ids that already had an inbound row
Waiting == [pc |-> "sleep", messages |-> <<>>, acked_ids |-> <<>>, known |-> {}]

Init ==
    /\ relay_url \in {[n \in Nodes |-> b] : b \in BOOLEAN}
    /\ link = [n \in Nodes |-> "down"]
    /\ relay_up = FALSE
    /\ log = [n \in Nodes |-> [m \in MsgIds |-> NoRec]]
    /\ peers = [n \in Nodes |-> {}]
    /\ outbox = [n \in Nodes |-> <<>>]
    /\ held = <<>>
    /\ registry = [name \in Names |-> NoEntry]
    /\ next_id = 1
    /\ sends = [m \in MsgIds |-> NoSend]
    /\ retry = [n \in Nodes |-> Sleeping]
    /\ pull = [n \in Nodes |-> Waiting]
    /\ dispatched = [n \in Nodes |-> <<>>]
    /\ bad = 0
    /\ now = 1
    /\ client = NoCall
    /\ swept = 0
    /\ identity_file = [n \in Nodes |-> save(n)]
    /\ identity = [n \in Nodes |-> [seed |-> n, created |-> FALSE]]

\* ------------------------------------------------------ network calls
\* What the HTTP client sees: a 200 answer, or the exception httpx raises on a
\* refused connection or on a timeout.
PeerAnswer(peer) ==
    IF peer.host \in Nodes /\ peer.port # RelayOnlyPort
    THEN (IF link[peer.host] = "up" THEN "200" ELSE "exception")
    ELSE "exception"

\* The peer's /v0/inbox handler ran (a slow peer handles the request and the
\* caller times out before the answer).
PeerHandles(peer) ==
    peer.host \in Nodes /\ peer.port # RelayOnlyPort /\ link[peer.host] # "down"

RelayAnswer == IF relay_up THEN "200" ELSE "exception"

\* -------------------------------------------------------------- Router
\* receive without the look at the existing row
receive_rewrites(n, ps, lg, envelope) ==
    store_message(lg, envelope, "inbound", "delivered")

\* receive that stores nothing
receive_forgets(n, ps, lg, envelope) == lg

\* receive that returns on an invalid signature
receive_rejects_invalid(n, ps, lg, envelope) ==
    LET sign_data == <<envelope.msg_id, envelope.from_addr, envelope.to_addr,
                       envelope.sent_at>>
        peer == get_peer_by_address(ps, envelope.from_addr)
        \* an invalid signature is logged and nothing else
        warned == /\ envelope.signature # NoSignature
                  /\ peer # NoPeer
                  /\ ~verify(sign_data, envelope.signature, peer.pubkey)
        \* decrypt or model_validate_json raises: logged, the envelope stays
        opened ==
            IF /\ envelope.encrypted /\ envelope.payload.intent = "encrypted"
               /\ CanDecrypt(n, envelope.payload.body)
               /\ IsPayload(envelope.payload.body.plain)
            THEN [envelope EXCEPT !.payload = envelope.payload.body.plain,
                                  !.encrypted = FALSE]
            ELSE envelope
        existing == get_message(lg, envelope.msg_id)
    IN  IF existing.direction = "inbound" \/ warned
        THEN lg
        ELSE store_message(lg, opened, "inbound", "delivered")

\* receive without line 221: the flag stays True after the payload is opened
receive_keeps_flag(n, ps, lg, envelope) ==
    LET sign_data == <<envelope.msg_id, envelope.from_addr, envelope.to_addr,
                       envelope.sent_at>>
        peer == get_peer_by_address(ps, envelope.from_addr)
        \* an invalid signature is logged and nothing else
        warned == /\ envelope.signature # NoSignature
                  /\ peer # NoPeer
                  /\ ~verify(sign_data, envelope.signature, peer.pubkey)
        \* decrypt or model_validate_json raises: logged, the envelope stays
        opened ==
            IF /\ envelope.encrypted /\ envelope.payload.intent = "encrypted"
               /\ CanDecrypt(n, envelope.payload.body)
               /\ IsPayload(envelope.payload.body.plain)
            THEN [envelope EXCEPT !.payload = envelope.payload.body.plain]
            ELSE envelope
        existing == get_message(lg, envelope.msg_id)
    IN  IF existing.direction = "inbound"
        THEN lg
        ELSE store_message(lg, opened, "inbound", "delivered")

\* Router.receive on the messages table lg of node n
receive(n, ps, lg, envelope) ==
    LET sign_data == <<envelope.msg_id, envelope.from_addr, envelope.to_addr,
                       envelope.sent_at>>
        peer == get_peer_by_address(ps, envelope.from_addr)
        \* an invalid signature is logged and nothing else
        warned == /\ envelope.signature # NoSignature
                  /\ peer # NoPeer
                  /\ ~verify(sign_data, envelope.signature, peer.pubkey)
        \* decrypt or model_validate_json raises: logged, the envelope stays
        opened ==
            IF /\ envelope.encrypted /\ envelope.payload.intent = "encrypted"
               /\ CanDecrypt(n, envelope.payload.body)
               /\ IsPayload(envelope.payload.body.plain)
            THEN [envelope EXCEPT !.payload = envelope.payload.body.plain,
                                  !.encrypted = FALSE]
            ELSE envelope
        existing == get_message(lg, envelope.msg_id)
    IN  IF existing.direction = "inbound"
        THEN lg
        ELSE store_message(lg, opened, "inbound", "delivered")

\* POST /v0/inbox as the peer's node handles it: the messages tables afterwards
Inbox(lgs, peer, envelope) ==
    IF PeerHandles(peer)
    THEN [lgs EXCEPT ![peer.host] =
            receive(peer.host, peers[peer.host], lgs[peer.host], envelope)]
    ELSE lgs

\* What a call gives its caller: a value, or an exception that goes on up
Returns(value) == [raised |-> FALSE, value |-> value]
Raises == [raised |-> TRUE, value |-> FALSE]

\* the POST outside the try block
deliver_to_peer_uncaught(answer) ==
    IF answer = "exception" THEN Raises ELSE Returns(answer = "200")

\* a status check no answer passes
deliver_to_peer_never(answer) == Returns(FALSE)

\* Router._deliver_to_peer: True on 200, False on anything else; the
\* exception of the HTTP client is caught
deliver_to_peer(answer) == Returns(answer = "200")

\* a deposit addressed by the node_id of the peer record
DepositRequestByNodeId(n, envelope, peer) ==
    [msg_id |-> envelope.msg_id,
     recipient_fingerprint |-> peer.node_id,
     sender_fingerprint |-> fingerprint(n),
     encrypted_envelope |-> envelope,
     ttl_sec |-> DEFAULT_TTL]

\* Router._deposit_to_relay: the request body, and its result
DepositRequest(n, envelope, peer) ==
    [msg_id |-> envelope.msg_id,
     recipient_fingerprint |-> FingerprintOfKey(peer.pubkey),
     sender_fingerprint |-> fingerprint(n),
     encrypted_envelope |-> envelope,
     ttl_sec |-> DEFAULT_TTL]

\* line 145 is outside the try block: b64decode of the peer's pubkey raises
\* out of _deposit_to_relay; the exception of the HTTP client is caught
deposit_to_relay(peer, answer) ==
    IF Decodes(peer.pubkey) THEN Returns(answer = "200") ELSE Raises

\* the seal without line 63: the flag stays False
SealWithoutFlag(envelope, peer, encrypt) ==
    IF peer # NoPeer /\ encrypt
    THEN [envelope EXCEPT
            !.payload = MessagePayload("encrypted", "[encrypted]",
                                       encrypt_for(envelope.payload, peer.encrypt_pubkey))]
    ELSE envelope

\* Router.send, lines 55-63: seal the payload when a peer is known
Seal(envelope, peer, encrypt) ==
    IF peer # NoPeer /\ encrypt
    THEN [envelope EXCEPT
            !.payload = MessagePayload("encrypted", "[encrypted]",
                                       encrypt_for(envelope.payload, peer.encrypt_pubkey)),
            !.encrypted = TRUE]
    ELSE envelope

\* the relay deposit is tried whatever the direct attempt gave
TryRelayAlways(delivered, relay, peer) == relay /\ peer # NoPeer

\* Router.send, line 72: the relay deposit is tried
TryRelay(delivered, relay, peer) == ~delivered /\ relay /\ peer # NoPeer

\* delivered without its "not"
SendResponseInverted(ob, msg_id) ==
    [status |-> "ok", msg_id |-> msg_id,
     delivered |-> \E k \in DOMAIN get_pending_outbox(ob) :
                        get_pending_outbox(ob)[k].msg_id = msg_id]

\* main.send_message, lines 200-202: the answer of POST /v0/send
SendResponse(ob, msg_id) ==
    [status |-> "ok", msg_id |-> msg_id,
     delivered |-> ~(\E k \in DOMAIN get_pending_outbox(ob) :
                        get_pending_outbox(ob)[k].msg_id = msg_id)]

\* send returns: the handler answers from the tables as they are now
Returned(s, lgs, obs) ==
    [s EXCEPT !.pc = "done",
              !.final = [direction |-> lgs[s.node][s.envelope.msg_id].direction,
                         status |-> lgs[s.node][s.envelope.msg_id].status],
              !.response = SendResponse(obs[s.node], s.envelope.msg_id)]

Tried(s, via, ok) == [s EXCEPT !.route = Append(@, [via |-> via, ok |-> ok])]

\* Router.send, lines 78-85, reached without a relay deposit that succeeded
Settle(s, delivered, lgs) ==
    LET n == s.node
        e == s.envelope
    IN  IF delivered
        THEN /\ log' = [lgs EXCEPT ![n] = store_message(lgs[n], e, "outbound", "delivered")]
             /\ outbox' = outbox
             /\ sends' = [sends EXCEPT ![e.msg_id] = Returned(s, log', outbox')]
        ELSE /\ outbox' = [outbox EXCEPT ![n] = queue_outbox(outbox[n], e)]
             /\ log' = [lgs EXCEPT ![n] = store_message(lgs[n], e, "outbound", "queued")]
             /\ sends' = [sends EXCEPT ![e.msg_id] =
                            Returned(Tried(s, "outbox", TRUE), log', outbox')]

\* an exception leaves send: POST /v0/send answers 500
Raised(s, lgs) ==
    /\ sends' = [sends EXCEPT ![s.envelope.msg_id] = [s EXCEPT !.pc = "raised"]]
    /\ log' = lgs
    /\ outbox' = outbox

\* Router.send, lines 55-70: the peer is resolved (or known to be unknown)
Resolved(s0, peer) ==
    LET n == s0.node
        e == Seal(s0.envelope, peer, s0.encrypt)
        s == [s0 EXCEPT !.envelope = e, !.peer = peer]
        sending == [log EXCEPT ![n] = store_message(log[n], e, "outbound", "sending")]
    IN  IF peer # NoPeer
        THEN /\ log' = sending
             /\ sends' = [sends EXCEPT ![e.msg_id] = [s EXCEPT !.pc = "direct"]]
             /\ outbox' = outbox
        ELSE Settle(s, FALSE, sending)

\* Router.send, lines 26-53: compose, sign, look the peer up locally
send(n, to_addr, encrypt) ==
    /\ next_id <= MaxMsgs
    /\ LET id == next_id
           payload == MessagePayload("human_message", "hi", PlainBody)
           envelope == MessageEnvelope(id, Address(n), to_addr, payload,
                            sign(n, <<id, Address(n), to_addr, id>>))
           peer == get_peer_by_address(peers[n], to_addr)
           s == [NoSend EXCEPT !.node = n, !.envelope = envelope, !.encrypt = encrypt]
       IN  /\ next_id' = id + 1
           /\ IF peer = NoPeer /\ relay_url[n]
              THEN /\ sends' = [sends EXCEPT ![id] = [s EXCEPT !.pc = "lookup"]]
                   /\ UNCHANGED <<log, outbox>>
              ELSE Resolved(s, peer)
    /\ UNCHANGED <<identity_file, identity,
                   now, client, swept, relay_url, link, relay_up, peers, held, registry, retry, pull,
                   dispatched, bad>>

\* the directory row cached with the address the node advertises on the LAN
LookupPeerWithHost(data, name, to_addr) ==
    PeerInfo(data.fingerprint, name, to_addr, name, Port, data.pubkey, data.encrypt_pubkey)

\* Router._lookup_from_relay, lines 99-108: the peer made of a directory row
LookupPeer(data, name, to_addr) ==
    PeerInfo(data.fingerprint, name, to_addr, "", RelayOnlyPort,
             data.pubkey, data.encrypt_pubkey)

\* Router._lookup_from_relay, then send goes on
send_lookup_from_relay(id) ==
    /\ sends[id].pc = "lookup"
    /\ LET n == sends[id].node
           to_addr == sends[id].envelope.to_addr
           name == to_addr.local
           data == IF RelayAnswer = "200" THEN RelayLookup(registry, name) ELSE NoEntry
           peer == IF data = NoEntry THEN NoPeer ELSE LookupPeer(data, name, to_addr)
           \* None on a 404 and on an exception of the HTTP client alike
           s == [sends[id] EXCEPT !.lookup = IF peer = NoPeer THEN "miss" ELSE "hit"]
       IN  /\ peers' = IF peer = NoPeer THEN peers
                       ELSE [peers EXCEPT ![n] = upsert_peer(peers[n], peer)]
           /\ Resolved(s, peer)
    /\ UNCHANGED <<identity_file, identity,
                   now, client, swept, relay_url, link, relay_up, held, registry, next_id, retry, pull,
                   dispatched, bad>>

\* send awaits _deliver_to_peer, then goes on to line 72
send_deliver_to_peer(id) ==
    /\ sends[id].pc = "direct"
    /\ LET s0 == sends[id]
           n == s0.node
           call == deliver_to_peer(PeerAnswer(s0.peer))
           delivered == call.value
           lgs == Inbox(log, s0.peer, s0.envelope)
           s == Tried(s0, "direct", delivered)
       IN  /\ dispatched' = IF delivered
                            THEN [dispatched EXCEPT ![n] = Append(@, id)]
                            ELSE dispatched
           /\ IF call.raised
              THEN Raised(s0, lgs)
              ELSE IF TryRelay(delivered, relay_url[n], s0.peer)
              THEN /\ sends' = [sends EXCEPT ![id] = [s EXCEPT !.pc = "deposit"]]
                   /\ log' = lgs
                   /\ outbox' = outbox
              ELSE Settle(s, delivered, lgs)
    /\ UNCHANGED <<identity_file, identity,
                   now, client, swept, relay_url, link, relay_up, peers, held, registry, next_id, retry,
                   pull, bad>>

\* send awaits _deposit_to_relay, then goes on to line 74
send_deposit_to_relay(id) ==
    /\ sends[id].pc = "deposit"
    /\ LET s0 == sends[id]
           n == s0.node
           e == s0.envelope
           call == deposit_to_relay(s0.peer, RelayAnswer)
           deposited == call.value
           s == Tried(s0, "relay", deposited)
       IN  IF call.raised
           THEN /\ Raised(s0, log)
                /\ UNCHANGED <<held, dispatched>>
           ELSE IF deposited
           THEN /\ held' = RelayDeposit(held, DepositRequest(n, e, s0.peer), now)
                /\ log' = [log EXCEPT ![n] = store_message(log[n], e, "outbound", "relayed")]
                /\ outbox' = outbox
                /\ sends' = [sends EXCEPT ![id] = Returned(s, log', outbox')]
                /\ dispatched' = [dispatched EXCEPT ![n] = Append(@, id)]
           ELSE /\ Settle(s, FALSE, log)
                /\ UNCHANGED <<held, dispatched>>
    /\ UNCHANGED <<identity_file, identity,
                   now, client, swept, relay_url, link, relay_up, peers, registry, next_id, retry, pull, bad>>

\* ---------------------------------------------------------- retry loop
\* Router.retry_queued, lines 237-240: the next entry whose peer is known
RECURSIVE NextWithPeer(_, _, _)
NextWithPeer(ps, pending, i) ==
    IF i > Len(pending) THEN i
    ELSE IF get_peer_by_address(ps, pending[i].envelope_json.to_addr) # NoPeer THEN i
    ELSE NextWithPeer(ps, pending, i + 1)

\* a loop that takes the entry it has just tried once more
AdvanceAgain(r, ps, i, reachable) ==
    LET j == NextWithPeer(ps, r.pending, IF i > 1 THEN i - 1 ELSE i)
    IN  IF j <= Len(r.pending)
        THEN [r EXCEPT !.pc = "direct", !.i = j, !.reachable = reachable /\ j = i,
                       !.peer = get_peer_by_address(ps, r.pending[j].envelope_json.to_addr)]
        ELSE Sleeping

\* the loop goes on from entry i: it stops at the next await or ends the tick
Advance(r, ps, i, reachable) ==
    LET j == NextWithPeer(ps, r.pending, i)
    IN  IF j <= Len(r.pending)
        THEN [r EXCEPT !.pc = "direct", !.i = j, !.reachable = reachable /\ j = i,
                       !.peer = get_peer_by_address(ps, r.pending[j].envelope_json.to_addr)]
        ELSE Sleeping

\* the attempt counter the code writes, capped to keep the model finite
Attempts(a) == IF a < MaxAttempts THEN a + 1 ELSE a

\* Router.retry_queued, line 246: the relay deposit is tried
RetryTryRelay(delivered, relay) == ~delivered /\ relay

\* Router.retry_queued, lines 246-252: direct delivery failed and no relay
\* deposit is tried
RetryFailed(ob, relay, item) ==
    IF relay THEN ob ELSE mark_outbox_failed(ob, item.msg_id, Attempts(item.attempts))

\* retry_loop wakes up: Router.retry_queued reads the pending entries
retry_queued(n) ==
    /\ retry[n].pc = "sleep"
    /\ retry' = [retry EXCEPT ![n] =
                    Advance([Sleeping EXCEPT !.pending = get_pending_outbox(outbox[n])],
                            peers[n], 1, TRUE)]
    /\ UNCHANGED <<identity_file, identity,
                   now, client, swept, relay_url, link, relay_up, log, peers, outbox, held, registry,
                   next_id, sends, pull, dispatched, bad>>

\* retry_queued awaits _deliver_to_peer for entry i, then goes on
retry_deliver_to_peer(n) ==
    /\ retry[n].pc = "direct"
    /\ LET r == retry[n]
           item == r.pending[r.i]
           envelope == item.envelope_json
           delivered == deliver_to_peer(PeerAnswer(r.peer)).value
           lgs == Inbox(log, r.peer, envelope)
       IN  IF delivered
           THEN /\ outbox' = [outbox EXCEPT ![n] = mark_outbox_sent(outbox[n], envelope.msg_id)]
                /\ log' = [lgs EXCEPT ![n] =
                              store_message(lgs[n], envelope, "outbound", "delivered")]
                /\ dispatched' = [dispatched EXCEPT ![n] = Append(@, envelope.msg_id)]
                /\ retry' = [retry EXCEPT ![n] =
                                Advance(r, peers[n], r.i + 1,
                                        r.reachable /\ PeerAnswer(r.peer) = "200")]
           ELSE /\ log' = lgs
                /\ dispatched' = dispatched
                /\ IF RetryTryRelay(delivered, relay_url[n])
                   THEN /\ retry' = [retry EXCEPT ![n] = [r EXCEPT !.pc = "deposit", !.reachable = FALSE]]
                        /\ outbox' = outbox
                   ELSE /\ outbox' = [outbox EXCEPT ![n] = RetryFailed(outbox[n], relay_url[n], item)]
                        /\ retry' = [retry EXCEPT ![n] = Advance(r, peers[n], r.i + 1, FALSE)]
    /\ UNCHANGED <<identity_file, identity,
                   now, client, swept, relay_url, link, relay_up, peers, held, registry, next_id, sends,
                   pull, bad>>

\* retry_queued awaits _deposit_to_relay for entry i, then goes on
retry_deposit_to_relay(n) ==
    /\ retry[n].pc = "deposit"
    /\ LET r == retry[n]
           item == r.pending[r.i]
           envelope == item.envelope_json
           call == deposit_to_relay(r.peer, RelayAnswer)
           deposited == call.value
       IN  IF call.raised
           \* the exception leaves retry_queued: the tick ends in retry_loop
           THEN /\ retry' = [retry EXCEPT ![n] = [r EXCEPT !.pc = "raised"]]
                /\ UNCHANGED <<held, outbox, log, dispatched>>
           ELSE
           /\ IF deposited
              THEN /\ held' = RelayDeposit(held, DepositRequest(n, envelope, r.peer), now)
                   /\ outbox' = [outbox EXCEPT ![n] = mark_outbox_sent(outbox[n], envelope.msg_id)]
                   /\ log' = [log EXCEPT ![n] =
                                 store_message(log[n], envelope, "outbound", "relayed")]
                   /\ dispatched' = [dispatched EXCEPT ![n] = Append(@, envelope.msg_id)]
              ELSE /\ outbox' = [outbox EXCEPT ![n] = RetryFailed(outbox[n], relay_url[n], item)]
                   /\ UNCHANGED <<held, log, dispatched>>
           /\ retry' = [retry EXCEPT ![n] = Advance(r, peers[n], r.i + 1, FALSE)]
    /\ UNCHANGED <<identity_file, identity,
                   now, client, swept, relay_url, link, relay_up, peers, registry, next_id, sends, pull, bad>>

\* a retry_loop without the try block: the exception ends the task
RetryLoopEnds(r) == r

\* main.retry_loop, lines 59-61: the exception is logged and the loop sleeps
RetryLoopExcept(r) == Sleeping

\* main.retry_loop after a tick that raised
retry_loop_except(n) ==
    /\ retry[n].pc = "raised"
    /\ retry' = [retry EXCEPT ![n] = RetryLoopExcept(retry[n])]
    /\ UNCHANGED <<identity_file, identity,
                   now, client, swept, relay_url, link, relay_up, log, peers, outbox, held, registry,
                   next_id, sends, pull, dispatched, bad>>

\* ----------------------------------------------------- relay pull loop
\* a validation no blob passes
ParsesNothing(blob) == FALSE

\* MessageEnvelope.model_validate_json accepts the blob
Parses(blob) == "malformed" \notin DOMAIN blob

\* acked_ids.append moved out of the try block: every picked-up id is acked
RECURSIVE ProcessAcksAll(_, _, _, _)
ProcessAcksAll(n, lg, messages, k) ==
    IF k = 0 THEN [log |-> lg, acked_ids |-> <<>>]
    ELSE LET before == ProcessAcksAll(n, lg, messages, k - 1)
             msg == messages[k]
         IN  [log |-> IF Parses(msg.encrypted_envelope)
                      THEN receive(n, peers[n], before.log, msg.encrypted_envelope)
                      ELSE before.log,
              acked_ids |-> Append(before.acked_ids, msg.msg_id)]

\* Router.pull_from_relay, lines 185-193: the messages table and acked_ids
\* after the first k picked-up messages
RECURSIVE Process(_, _, _, _)
Process(n, lg, messages, k) ==
    IF k = 0 THEN [log |-> lg, acked_ids |-> <<>>]
    ELSE LET before == Process(n, lg, messages, k - 1)
             msg == messages[k]
         IN  IF Parses(msg.encrypted_envelope)
             THEN [log |-> receive(n, peers[n], before.log, msg.encrypted_envelope),
                   acked_ids |-> Append(before.acked_ids, msg.msg_id)]
             ELSE before

\* relay_pull_loop wakes up: pickup, then every message through receive
pull_from_relay(n) ==
    /\ relay_url[n]
    /\ pull[n].pc = "sleep"
    /\ RelayAnswer = "200"
    /\ \E messages \in {RelayPickup(held, fingerprint(n), 0, now)} :
       LET done == Process(n, log[n], messages, Len(messages))
       IN  /\ log' = [log EXCEPT ![n] = done.log]
           /\ pull' = [pull EXCEPT ![n] =
                          IF done.acked_ids # <<>>
                          THEN [pc |-> "ack", messages |-> messages,
                                acked_ids |-> done.acked_ids,
                                known |-> {messages[k].msg_id : k \in
                                    {j \in DOMAIN messages :
                                        /\ messages[j].msg_id \in MsgIds
                                        /\ log[n][messages[j].msg_id].direction = "inbound"}}]
                          ELSE Waiting]
    /\ UNCHANGED <<identity_file, identity,
                   now, client, swept, relay_url, link, relay_up, peers, outbox, held, registry, next_id,
                   sends, retry, dispatched, bad>>

\* pull_from_relay awaits POST /v0/ack; an exception ends the tick
pull_ack(n) ==
    /\ pull[n].pc = "ack"
    /\ held' = IF RelayAnswer = "200"
               THEN RelayAck(held, {pull[n].acked_ids[k] : k \in DOMAIN pull[n].acked_ids},
                             fingerprint(n))
               ELSE held
    /\ pull' = [pull EXCEPT ![n] = Waiting]
    /\ UNCHANGED <<identity_file, identity,
                   now, client, swept, relay_url, link, relay_up, log, peers, outbox, registry, next_id,
                   sends, retry, dispatched, bad>>

\* --------------------------------------------------------- environment
\* What AsyncServiceInfo resolves for a service whose TXT record carries the
\* name node_name and the keys of identity i: props, parsed_addresses()[0]
\* and port.
ServiceInfo(i, node_name) ==
    [node_id |-> fingerprint(i), node_name |-> node_name, host |-> i, port |-> Port,
     pubkey |-> pubkey_b64(i), encrypt_pubkey |-> encrypt_pubkey_b64(i)]

\* main.on_peer_found on the peers table ps
on_peer_found(ps, peer_data) ==
    upsert_peer(ps,
        PeerInfo(peer_data.node_id, peer_data.node_name, Address(peer_data.node_name),
                 peer_data.host, peer_data.port, peer_data.pubkey,
                 peer_data.encrypt_pubkey))

\* on_peer_removed that deletes the rows of the service
on_peer_removed_deletes(ps, name) ==
    {p \in ps : ~(p.node_id = name.node_id /\ p.node_name = name.node_name)}

\* main.on_peer_removed on the peers table ps: a log line
on_peer_removed(ps, name) == ps

\* resolution without lines 103-105: the node's own service is a peer too
ResolveAndAddSelf(n, ps, info) == on_peer_found(ps, info)

\* PeerDiscovery._async_resolve_and_add of node n, lines 101-118, for a
\* service that resolved to info
ResolveAndAdd(n, ps, info) ==
    IF info.node_id = fingerprint(n) THEN ps ELSE on_peer_found(ps, info)

\* PeerDiscovery._async_resolve_and_add for the service of node p, and
\* main.on_peer_found
async_resolve_and_add(n, p) ==
    /\ peers' = [peers EXCEPT ![n] = ResolveAndAdd(n, peers[n], ServiceInfo(p, p))]
    /\ UNCHANGED <<identity_file, identity,
                   now, client, swept, relay_url, link, relay_up, log, outbox, held, registry, next_id,
                   sends, retry, pull, dispatched, bad>>

\* main.lifespan, lines 108-119: the node registers its name at the relay
register(n) ==
    /\ relay_url[n]
    /\ RelayAnswer = "200"
    /\ registry' = RelayRegister(registry, n, n)
    /\ UNCHANGED <<identity_file, identity,
                   now, client, swept, relay_url, link, relay_up, log, peers, outbox, held, next_id,
                   sends, retry, pull, dispatched, bad>>

\* a client other than the two nodes deposits a blob that is no envelope
\* (relay_server.deposit validates nothing)
deposit_malformed(n) ==
    /\ bad < MaxBad
    /\ RelayAnswer = "200"
    /\ held' = RelayDeposit(held,
                  [msg_id |-> -(bad + 1), recipient_fingerprint |-> fingerprint(n),
                   sender_fingerprint |-> [fp |-> "other"],
                   encrypted_envelope |-> Garbage, ttl_sec |-> DEFAULT_TTL],
                  now)
    /\ bad' = bad + 1
    /\ UNCHANGED <<identity_file, identity,
                   now, client, swept, relay_url, link, relay_up, log, peers, outbox, registry, next_id,
                   sends, retry, pull, dispatched>>

\* the HTTP server of node n starts to answer, answers slowly, or stops
link_change(n, v) ==
    /\ link[n] # v
    /\ link' = [link EXCEPT ![n] = v]
    /\ UNCHANGED <<identity_file, identity,
                   now, client, swept, relay_url, relay_up, log, peers, outbox, held, registry, next_id,
                   sends, retry, pull, dispatched, bad>>

relay_change ==
    /\ relay_up' = ~relay_up
    /\ UNCHANGED <<identity_file, identity,
                   now, client, swept, relay_url, link, log, peers, outbox, held, registry, next_id,
                   sends, retry, pull, dispatched, bad>>

\* the nodes and the relay at work
Routing ==
    \/ \E n \in Senders, to_addr \in Destinations, encrypt \in EncryptChoices :
            send(n, to_addr, encrypt)
    \/ \E id \in MsgIds : send_lookup_from_relay(id)
    \/ \E id \in MsgIds : send_deliver_to_peer(id)
    \/ \E id \in MsgIds : send_deposit_to_relay(id)
    \/ \E n \in Nodes : retry_queued(n)
    \/ \E n \in Nodes : retry_deliver_to_peer(n)
    \/ \E n \in Nodes : retry_deposit_to_relay(n)
    \/ \E n \in Nodes : pull_from_relay(n)
    \/ \E n \in Nodes : pull_ack(n)
    \/ \E n \in Senders, p \in Nodes : async_resolve_and_add(n, p)
    \/ \E n \in Recipients : register(n)

Next ==
    \/ Routing
    \/ \E n \in Recipients : deposit_malformed(n)
    \/ \E n \in Recipients, v \in {"up", "slow", "down"} : link_change(n, v)
    \/ relay_change

\* the same nodes with peers that answer or do not, and no foreign deposits
LiveNext ==
    \/ Routing
    \/ \E n \in Recipients, v \in {"up", "down"} : link_change(n, v)
    \/ relay_change

Spec == Init /\ [][Next]_vars

\* ------------------------------------------- send with either encrypt
\* POST /v0/send with encrypt true or false, up to the return of send
ComposeNext ==
    \/ \E n \in Senders, to_addr \in Destinations, encrypt \in BOOLEAN :
            send(n, to_addr, encrypt)
    \/ \E id \in MsgIds : send_lookup_from_relay(id)
    \/ \E id \in MsgIds : send_deliver_to_peer(id)
    \/ \E id \in MsgIds : send_deposit_to_relay(id)
    \/ \E n \in Senders, p \in Nodes : async_resolve_and_add(n, p)
    \/ \E n \in Recipients : register(n)
    \/ \E n \in Recipients, v \in {"up", "down"} : link_change(n, v)
    \/ relay_change

ComposeSpec == Init /\ [][ComposeNext]_vars

\* ------------------------------------------------- the relay on its own
\* Clients of the relay that are no nodes: any msg_id, any recipient, a
\* ttl_sec of their choice.
Fingerprints == {fingerprint(n) : n \in Nodes}
TtlChoices == {1, DEFAULT_TTL}
SinceChoices == {0, 1}
Blob == [malformed |-> TRUE]
DepositRequests ==
    [msg_id : MsgIds, recipient_fingerprint : Fingerprints,
     sender_fingerprint : {[fp |-> "other"]}, encrypted_envelope : {Blob},
     ttl_sec : TtlChoices]

Call(op, request, answer) ==
    [op |-> op, flip |-> ~client.flip, request |-> request, answer |-> answer]

\* relay_server.deposit
relay_deposit(req) ==
    /\ held' = RelayDeposit(held, req, now)
    /\ client' = Call("deposit", req, [status |-> "ok", msg_id |-> req.msg_id])
    /\ UNCHANGED <<identity_file, identity, relay_url, link, relay_up, log, peers, outbox, registry, next_id,
                   sends, retry, pull, dispatched, bad, now, swept>>

\* relay_server.pickup
relay_pickup(recipient_fingerprint, since) ==
    /\ LET messages == RelayPickup(held, recipient_fingerprint, since, now)
       IN  client' = Call("pickup",
                          [recipient_fingerprint |-> recipient_fingerprint, since |-> since],
                          [messages |-> messages, count |-> Len(messages)])
    /\ UNCHANGED <<identity_file, identity, relay_url, link, relay_up, log, peers, outbox, held, registry,
                   next_id, sends, retry, pull, dispatched, bad, now, swept>>

\* relay_server.ack
relay_ack(recipient_fingerprint, msg_ids) ==
    /\ held' = RelayAck(held, msg_ids, recipient_fingerprint)
    /\ client' = Call("ack",
                      [recipient_fingerprint |-> recipient_fingerprint, msg_ids |-> msg_ids],
                      [status |-> "ok",
                       removed |-> RelayAckCount(held, msg_ids, recipient_fingerprint)])
    /\ UNCHANGED <<identity_file, identity, relay_url, link, relay_up, log, peers, outbox, registry, next_id,
                   sends, retry, pull, dispatched, bad, now, swept>>

\* relay_server.register, with the keys of node n under the name
relay_register(name, n) ==
    /\ registry' = RelayRegister(registry, name, n)
    /\ client' = Call("register", [name |-> name, fingerprint |-> fingerprint(n)],
                      [status |-> "ok", name |-> name])
    /\ UNCHANGED <<identity_file, identity, relay_url, link, relay_up, log, peers, outbox, held, next_id,
                   sends, retry, pull, dispatched, bad, now, swept>>

\* relay_server.lookup: the row, or 404
relay_lookup(name) ==
    /\ client' = Call("lookup", [name |-> name],
                      IF RelayLookup(registry, name) = NoEntry
                      THEN [status_code |-> 404]
                      ELSE RelayLookup(registry, name))
    /\ UNCHANGED <<identity_file, identity, relay_url, link, relay_up, log, peers, outbox, held, registry,
                   next_id, sends, retry, pull, dispatched, bad, now, swept>>

\* relay_server.cleanup_loop: one round
cleanup_loop ==
    /\ held' = RelayCleanupExpired(held, now)
    /\ swept' = now
    /\ UNCHANGED <<identity_file, identity, relay_url, link, relay_up, log, peers, outbox, registry, next_id,
                   sends, retry, pull, dispatched, bad, now, client>>

\* time passes at the relay
clock ==
    /\ now < MaxNow
    /\ now' = now + 1
    /\ UNCHANGED <<identity_file, identity, relay_url, link, relay_up, log, peers, outbox, held, registry,
                   next_id, sends, retry, pull, dispatched, bad, client, swept>>

RelayNext ==
    \/ \E req \in DepositRequests : relay_deposit(req)
    \/ \E fp \in Fingerprints, since \in SinceChoices : relay_pickup(fp, since)
    \/ \E fp \in Fingerprints, msg_ids \in SUBSET MsgIds : relay_ack(fp, msg_ids)
    \/ \E n \in Recipients : relay_register(n, n)
    \/ \E n \in Recipients : relay_lookup(n)
    \/ cleanup_loop
    \/ clock

RelaySpec == Init /\ [][RelayNext]_vars

\* --------------------------------------------- the directory on its own
\* POST /v0/register and GET /v0/lookup/{name} from anyone, with any
\* spelling of a name and the keys of any node.
DirectoryNext ==
    \/ \E name \in Names, n \in Nodes : relay_register(name, n)
    \/ \E name \in Names : relay_lookup(name)

DirectorySpec == Init /\ [][DirectoryNext]_vars

\* ---------------------------------------------- discovery on its own
\* mDNS is not authenticated: anyone on the LAN may announce a service under
\* any name. carol is a machine that is no node of the model; a second
\* service under a name stands for a machine of the same name, or for a node
\* that lost its identity file.
Identities == Nodes \cup {"carol"}
Services == {ServiceInfo(i, name) : i \in Identities, name \in Nodes}

\* PeerDiscovery._on_service_state_change of node n: a service was added
\* and resolved
service_added(n, info) ==
    /\ peers' = [peers EXCEPT ![n] = ResolveAndAdd(n, peers[n], info)]
    /\ client' = Call("Added", [node |-> n, info |-> info], [status |-> "none"])
    /\ UNCHANGED <<identity_file, identity, relay_url, link, relay_up, log, outbox, held, registry, next_id,
                   sends, retry, pull, dispatched, bad, now, swept>>

\* PeerDiscovery._on_service_state_change of node n: a service went away
service_removed(n, info) ==
    /\ peers' = [peers EXCEPT ![n] = on_peer_removed(peers[n], info)]
    /\ client' = Call("Removed", [node |-> n, info |-> info], [status |-> "none"])
    /\ UNCHANGED <<identity_file, identity, relay_url, link, relay_up, log, outbox, held, registry, next_id,
                   sends, retry, pull, dispatched, bad, now, swept>>

DiscoveryNext ==
    \/ \E n \in Nodes, info \in Services : service_added(n, info)
    \/ \E n \in Nodes, info \in Services : service_removed(n, info)

DiscoverySpec == Init /\ [][DiscoveryNext]_vars

\* ------------------------------------------------ Identity on its own
\* Identity.verify, encrypt_for and decrypt are pure: any caller, any
\* arguments. The texts handed to verify are signatures and keys in either
\* spelling, keys of the other kind, a key in place of a signature and the
\* reverse, and text that is no base64.
Bytes == {<<1>>, <<2>>}
Plaintexts == {MessagePayload("human_message", "hi", PlainBody), [text |-> ""]}
SignatureTexts ==
    LET signatures == {sign(i, data) : i \in Identities, data \in Bytes}
    IN  signatures \cup {Relaxed(text) : text \in signatures}
        \cup {pubkey_b64(i) : i \in Identities} \cup {NotBase64}
PubkeyTexts ==
    LET keys == {pubkey_b64(i) : i \in Identities}
    IN  keys \cup {Relaxed(text) : text \in keys}
        \cup {encrypt_pubkey_b64(i) : i \in Identities}
        \cup {sign(i, <<1>>) : i \in Identities} \cup {NotBase64}

\* decrypt that opens a box sealed to anyone
decrypt_any(n, ciphertext) == Returns(ciphertext.plain)

\* Identity.decrypt by identity n: the plaintext, or CryptoError
decrypt(n, ciphertext) ==
    IF CanDecrypt(n, ciphertext) THEN Returns(ciphertext.plain) ELSE Raises

\* Identity.verify called with these arguments
verify_call(data, signature, pubkey) ==
    /\ client' = Call("verify", [data |-> data, signature |-> signature, pubkey |-> pubkey],
                      Returns(verify(data, signature, pubkey)))
    /\ UNCHANGED <<identity_file, identity,
                   relay_url, link, relay_up, log, peers, outbox, held, registry, next_id,
                   sends, retry, pull, dispatched, bad, now, swept>>

\* some identity seals plaintext to identity b, and identity a opens it
seal_open(a, b, plaintext) ==
    /\ LET ciphertext == encrypt_for(plaintext, encrypt_pubkey_b64(b))
       IN  client' = Call("open", [identity |-> a, sealed_for |-> b, plaintext |-> plaintext,
                                   ciphertext |-> ciphertext],
                          decrypt(a, ciphertext))
    /\ UNCHANGED <<identity_file, identity,
                   relay_url, link, relay_up, log, peers, outbox, held, registry, next_id,
                   sends, retry, pull, dispatched, bad, now, swept>>

CryptoNext ==
    \/ \E data \in Bytes, signature \in SignatureTexts, pubkey \in PubkeyTexts :
            verify_call(data, signature, pubkey)
    \/ \E a \in Identities, b \in Identities, plaintext \in Plaintexts :
            seal_open(a, b, plaintext)

CryptoSpec == Init /\ [][CryptoNext]_vars

\* ------------------------------------------- the identity file over time
\* main.lifespan, line 83: the process of node n starts
start(n) ==
    /\ identity[n] = NoIdentity
    /\ \E seed \in Seeds :
        LET made == load_or_create(identity_file[n], seed)
        IN  /\ identity' = [identity EXCEPT ![n] = made.identity]
            /\ identity_file' = [identity_file EXCEPT ![n] = made.file]
    /\ UNCHANGED <<relay_url, link, relay_up, log, peers, outbox, held, registry, next_id,
                   sends, retry, pull, dispatched, bad, now, client, swept>>

\* the process of node n ends
stop(n) ==
    /\ identity[n] # NoIdentity
    /\ identity' = [identity EXCEPT ![n] = NoIdentity]
    /\ UNCHANGED <<relay_url, link, relay_up, log, peers, outbox, held, registry, next_id,
                   sends, retry, pull, dispatched, bad, now, client, swept, identity_file>>

\* the operator removes the identity file of node n
unlink(n) ==
    /\ identity_file[n].exists
    /\ identity_file' = [identity_file EXCEPT ![n] = NoFile]
    /\ UNCHANGED <<relay_url, link, relay_up, log, peers, outbox, held, registry, next_id,
                   sends, retry, pull, dispatched, bad, now, client, swept, identity>>

IdentityNext ==
    \/ \E n \in Nodes : start(n)
    \/ \E n \in Nodes : stop(n)
    \/ \E n \in Nodes : unlink(n)

IdentitySpec == Init /\ [][IdentityNext]_vars

\* ------------------------------------------------- the inbox on its own
\* POST /v0/inbox takes any envelope from anyone: signed by its sender, by
\* someone else or not at all; in the clear, sealed to the node, sealed to
\* another key, or sealed bytes that are no payload.
Junk == [junk |-> TRUE]
InboxSignatures(id, from, to) ==
    {sign(from.local, <<id, from, to, id>>), sign("mallory", <<id, from, to, id>>),
     NoSignature}
InboxPayloads(n) ==
    LET plain == MessagePayload("human_message", "hi", PlainBody)
        sealed(inner, owner) ==
            [encrypted |-> TRUE,
             payload |-> MessagePayload("encrypted", "[encrypted]",
                                        encrypt_for(inner, encrypt_pubkey_b64(owner)))]
    IN  {[encrypted |-> FALSE, payload |-> plain], sealed(plain, n), sealed(Junk, n)}
        \cup {sealed(plain, o) : o \in Nodes \ {n}}
InboxEnvelopes(n) ==
    UNION {{[msg_id |-> id, from_addr |-> Address(from), to_addr |-> Address(n),
             sent_at |-> id, signature |-> sig, encrypted |-> p.encrypted,
             payload |-> p.payload] :
                p \in InboxPayloads(n),
                sig \in InboxSignatures(id, Address(from), Address(n))} :
           id \in MsgIds, from \in Senders}

\* main.receive_message: POST /v0/inbox of node n
receive_message(n, envelope) ==
    /\ log' = [log EXCEPT ![n] = receive(n, peers[n], log[n], envelope)]
    /\ client' = Call("inbox", [node |-> n, envelope |-> envelope],
                      [status |-> "ok", msg_id |-> envelope.msg_id])
    /\ UNCHANGED <<identity_file, identity, relay_url, link, relay_up, peers, outbox, held, registry, next_id,
                   sends, retry, pull, dispatched, bad, now, swept>>

InboxNext ==
    \/ \E n \in Recipients : \E envelope \in InboxEnvelopes(n) :
            receive_message(n, envelope)
    \/ \E n \in Recipients, p \in Senders : async_resolve_and_add(n, p)

InboxSpec == Init /\ [][InboxNext]_vars

\* --------------------------------------------- a node writing to itself
\* POST /v0/send with the node's own address or name as to_addr: the
\* directory gives the node its own row, the envelope goes to the relay under
\* the node's own fingerprint, and the node's pull loop brings it back.
\* POST /v0/inbox of an envelope the node composed, from a client that has it.
SelfNext ==
    \/ \E n \in Senders : register(n)
    \/ \E n \in Senders : \E to_addr \in {Address(n), BareName(n)} : send(n, to_addr, TRUE)
    \/ \E id \in MsgIds : send_lookup_from_relay(id)
    \/ \E id \in MsgIds : send_deliver_to_peer(id)
    \/ \E id \in MsgIds : send_deposit_to_relay(id)
    \/ \E n \in Senders : pull_from_relay(n)
    \/ \E n \in Senders : pull_ack(n)
    \/ \E n \in Senders : \E id \in MsgIds :
            sends[id].pc # "none" /\ receive_message(n, sends[id].envelope)
    \/ relay_change

SelfSpec == Init /\ [][SelfNext]_vars

\* ------------------------------------------- the relay handle of a peer
\* A TXT record is taken as it comes: node_id, node_name and pubkey are three
\* properties anyone on the LAN may set, and the pubkey may be spelled in any
\* base64 text of its bytes. Here the node_id is that of a third machine, the
\* name and the key are those of either node. No peer answers, so every send
\* goes to the relay.
HandleServices ==
    {[ServiceInfo(x[1], x[2]) EXCEPT !.node_id = fingerprint("carol"),
                                     !.pubkey = IF x[3] THEN Relaxed(@) ELSE @] :
        x \in Nodes \X Nodes \X BOOLEAN}

HandleNext ==
    \/ \E n \in Senders, info \in HandleServices : service_added(n, info)
    \/ \E n \in Senders, p \in Nodes : send(n, Address(p), TRUE)
    \/ \E id \in MsgIds : send_lookup_from_relay(id)
    \/ \E id \in MsgIds : send_deliver_to_peer(id)
    \/ \E id \in MsgIds : send_deposit_to_relay(id)
    \/ \E n \in Nodes : pull_from_relay(n)
    \/ \E n \in Nodes : pull_ack(n)
    \/ relay_change

HandleSpec == Init /\ [][HandleNext]_vars

\* retry_loop runs for as long as the process lives: a tick starts 15 s
\* after the one before, and every await ends (the HTTP client times out)
RetryFairness ==
    \A n \in Nodes :
        /\ WF_vars(retry_queued(n))
        /\ WF_vars(retry_deliver_to_peer(n))
        /\ WF_vars(retry_deposit_to_relay(n))

\* relay_pull_loop likewise, every 10 s
PullFairness ==
    \A n \in Nodes : WF_vars(pull_from_relay(n)) /\ WF_vars(pull_ack(n))

LiveSpec == Init /\ [][LiveNext]_vars /\ RetryFairness /\ PullFairness

\* ------------------------------------------------ the loops on their own
\* The TXT record of a service is taken as it comes: a pubkey that is no
\* base64 text makes line 145 of _deposit_to_relay raise in every tick that
\* reaches an entry for that peer. The peer does not answer, and the relay
\* answers or does not, so that the ack of the pull loop raises too.
MalformedServices == {[ServiceInfo(p, p) EXCEPT !.pubkey = NotBase64] : p \in Recipients}

LoopNext ==
    \/ \E n \in Senders, p \in Recipients, encrypt \in EncryptChoices :
            send(n, Address(p), encrypt)
    \/ \E id \in MsgIds : send_lookup_from_relay(id)
    \/ \E id \in MsgIds : send_deliver_to_peer(id)
    \/ \E id \in MsgIds : send_deposit_to_relay(id)
    \/ \E n \in Senders : retry_queued(n)
    \/ \E n \in Senders : retry_deliver_to_peer(n)
    \/ \E n \in Senders : retry_deposit_to_relay(n)
    \/ \E n \in Senders : retry_loop_except(n)
    \/ \E n \in Recipients : pull_from_relay(n)
    \/ \E n \in Recipients : pull_ack(n)
    \/ \E n \in Senders, info \in MalformedServices : service_added(n, info)
    \/ \E n \in Recipients : register(n)
    \/ relay_change

LoopFairness ==
    /\ \A n \in Senders :
        /\ WF_vars(retry_queued(n))
        /\ WF_vars(retry_deliver_to_peer(n))
        /\ WF_vars(retry_deposit_to_relay(n))
        /\ WF_vars(retry_loop_except(n))
    /\ \A n \in Recipients : WF_vars(pull_from_relay(n)) /\ WF_vars(pull_ack(n))

LoopSpec == Init /\ [][LoopNext]_vars /\ LoopFairness

\* ------------------------------------------------------------- claims
Settled == {"delivered", "relayed", "queued"}

OutboxRow(ob, msg_id) ==
    IF \E k \in DOMAIN ob : ob[k].msg_id = msg_id
    THEN ob[CHOOSE k \in DOMAIN ob : ob[k].msg_id = msg_id]
    ELSE [msg_id |-> msg_id, status |-> "none", attempts |-> 0]

\* C1: when send returns, the outbound row of the new msg_id has status
\* delivered, relayed or queued, never sending.
C1_ReturnedSendIsSettled ==
    \A id \in MsgIds :
        sends[id].pc = "done" =>
            /\ sends[id].final.direction = "outbound"
            /\ sends[id].final.status \in Settled

\* two sends returned, one queued and one relayed
C1_Witness ==
    /\ \A id \in MsgIds : sends[id].pc = "done"
    /\ {sends[id].final.status : id \in MsgIds} = {"queued", "relayed"}

\* C2: a node holds one inbound row per msg_id, and a receipt after the
\* first leaves the row as it is: an inbound row is written once and never
\* changes.
C2_IdempotentIngest ==
    /\ [](\A n \in Recipients, id \in MsgIds :
            log[n][id].direction = "inbound" => log[n][id].writes = 1)
    /\ [][\A n \in Recipients, id \in MsgIds :
            log[n][id].direction = "inbound" => log'[n][id] = log[n][id]]_vars

\* a pull tick that went through receive with an envelope the node already
\* held as inbound
C2_Witness ==
    \E n \in Recipients :
        /\ pull[n].pc = "ack"
        /\ pull[n].known # {}
        /\ \A id \in pull[n].known : log[n][id].direction = "inbound"

\* C3: send tries the peer first, the relay only after a failed direct
\* attempt to a known peer with a relay configured, the outbox only after
\* every attempt that applies failed or with no peer known; no failure of
\* the network leaves send as an exception.
C3_FallbackOrder ==
    \A id \in MsgIds :
        LET s == sends[id]
            r == s.route
            known == s.peer # NoPeer
            relay == relay_url[s.node]
        IN  s.pc # "none" =>
              /\ s.pc # "raised"
              /\ \A k \in DOMAIN r :
                    /\ r[k].via = "direct" => k = 1 /\ known
                    /\ r[k].via = "relay" =>
                          /\ k = 2 /\ known /\ relay
                          /\ r[1] = [via |-> "direct", ok |-> FALSE]
                    /\ r[k].via = "outbox" =>
                          /\ k = Len(r)
                          /\ \A j \in 1..(k - 1) : ~r[j].ok
                          /\ ~known => k = 1
                          /\ known /\ relay => k = 3
                          /\ known /\ ~relay => k = 2
              /\ s.pc = "done" => r # <<>> /\ (r[Len(r)].via = "outbox" \/ r[Len(r)].ok)

\* a send that went through all three: direct failed, relay failed, outbox
C3_Witness ==
    \E id \in MsgIds :
        /\ sends[id].pc = "done"
        /\ Len(sends[id].route) = 3
        /\ sends[id].route[3].via = "outbox"

\* C4: the delivered field of the answer of POST /v0/send is true exactly
\* when send ended in delivered or relayed, false exactly when it queued.
C4_DeliveredField ==
    \A id \in MsgIds :
        sends[id].pc = "done" =>
            /\ sends[id].response.delivered <=>
                    sends[id].final.status \in {"delivered", "relayed"}
            /\ ~sends[id].response.delivered <=> sends[id].final.status = "queued"

\* one answer with delivered true and one with delivered false
C4_Witness ==
    /\ \A id \in MsgIds : sends[id].pc = "done"
    /\ \E id \in MsgIds : sends[id].response.delivered
    /\ \E id \in MsgIds : ~sends[id].response.delivered

\* the retry task of n takes the step that ends its await
RetryStep(n, pc) == retry[n].pc = pc /\ retry'[n] # retry[n]

\* C5: in a retry tick, a direct delivery that succeeds marks the outbox
\* entry sent and the outbound row delivered; a relay deposit that succeeds
\* marks the entry sent and the row relayed.
C5_RetrySuccess ==
    [][\A n \in Nodes :
        LET id == retry[n].pending[retry[n].i].msg_id
        IN  /\ RetryStep(n, "direct") /\ PeerAnswer(retry[n].peer) = "200" =>
                /\ OutboxRow(outbox'[n], id).status = "sent"
                /\ log'[n][id].direction = "outbound"
                /\ log'[n][id].status = "delivered"
            /\ RetryStep(n, "deposit") /\ RelayAnswer = "200" =>
                /\ OutboxRow(outbox'[n], id).status = "sent"
                /\ log'[n][id].direction = "outbound"
                /\ log'[n][id].status = "relayed"]_vars

\* both kinds of success of a retry have happened
C5_Witness ==
    \E n \in Senders :
        /\ \A id \in MsgIds : sends[id].pc = "done" /\ sends[id].final.status = "queued"
        /\ {log[n][id].status : id \in MsgIds} = {"delivered", "relayed"}
        /\ \A id \in MsgIds : OutboxRow(outbox[n], id).status = "sent"


C6_FailureIncrementsWithoutRelay ==
    [][\A n \in Nodes :
        LET r == retry[n]
            id == r.pending[r.i].msg_id
            row == OutboxRow(outbox[n], id)
        IN  /\ RetryStep(n, "direct") /\ PeerAnswer(r.peer) # "200" /\ ~relay_url[n]
            /\ row.attempts < MaxAttempts
            => /\ OutboxRow(outbox'[n], id).attempts = row.attempts + 1
               /\ OutboxRow(outbox'[n], id).status = "pending"]_vars

Ids(q) == {q[k].msg_id : k \in DOMAIN q}
IdSeq(q) == [k \in DOMAIN q |-> q[k].msg_id]

\* C7: when every entry read at the start of a retry tick has a peer that
\* answers 200, the tick dispatches the entries in the order they were
\* enqueued, marks each sent, and leaves none of them pending.
C7_FifoDrain ==
    [][\A n \in Nodes :
        LET r == retry[n]
        IN  /\ RetryStep(n, "direct")
            /\ r.reachable /\ PeerAnswer(r.peer) = "200"
            /\ r.i = Len(r.pending)
            => /\ retry'[n].pc = "sleep"
               /\ \A id \in Ids(r.pending) : OutboxRow(outbox'[n], id).status = "sent"
               /\ Ids(get_pending_outbox(outbox'[n])) \cap Ids(r.pending) = {}
               /\ SelectSeq(dispatched'[n], LAMBDA id : id \in Ids(r.pending))
                    = IdSeq(r.pending)
               /\ IdSeq(r.pending) =
                    IdSeq(SelectSeq(outbox[n], LAMBDA e : e.msg_id \in Ids(r.pending)))]_vars

\* the last entry of a tick over two entries, the first one sent in this tick
C7_Witness ==
    \E n \in Senders :
        /\ retry[n].pc = "direct"
        /\ retry[n].reachable
        /\ Len(retry[n].pending) = 2
        /\ retry[n].i = 2
        /\ PeerAnswer(retry[n].peer) = "200"
        /\ OutboxRow(outbox[n], retry[n].pending[1].msg_id).status = "sent"

\* C8: the envelopes one sender creates for one destination address are
\* accepted (by the peer or by the relay) in the order of their creation.
C8_CreationOrder ==
    \A n \in Senders :
        LET d == dispatched[n]
        IN  \A i \in DOMAIN d, j \in DOMAIN d :
                /\ i < j
                /\ sends[d[i]].envelope.to_addr = sends[d[j]].envelope.to_addr
                => d[i] < d[j]

\* C9: an entry that is pending, and whose destination from then on has a
\* peer record that answers 200, is in the end sent, and the recipient holds
\* an inbound row for its msg_id.
Pending(n, id) == OutboxRow(outbox[n], id).status = "pending"

Reachable(n, id) ==
    \E k \in DOMAIN outbox[n] :
        /\ outbox[n][k].msg_id = id
        /\ LET peer == get_peer_by_address(peers[n], outbox[n][k].to_addr)
           IN  peer # NoPeer /\ PeerAnswer(peer) = "200"

Converged(n, id) ==
    /\ OutboxRow(outbox[n], id).status = "sent"
    /\ \E k \in DOMAIN outbox[n] :
        /\ outbox[n][k].msg_id = id
        /\ log[outbox[n][k].to_addr.local][id].direction = "inbound"

C9_RetryConverges ==
    \A n \in Senders, id \in MsgIds :
        [](Pending(n, id) /\ []Reachable(n, id) => <>Converged(n, id))

\* C9 as amended: the entry is in the end sent; the recipient holds the
\* inbound row when the retry delivered it directly (an entry the tick had
\* already handed to the relay waits for the recipient's pull).
ConvergedOrRelayed(n, id) ==
    /\ OutboxRow(outbox[n], id).status = "sent"
    /\ log[n][id].status = "relayed" \/ Converged(n, id)

C9_RetrySends ==
    \A n \in Senders, id \in MsgIds :
        [](Pending(n, id) /\ []Reachable(n, id) => <>ConvergedOrRelayed(n, id))

\* an entry that was pending while its peer did not answer is sent and received
C9_Witness ==
    \E n \in Senders, id \in MsgIds :
        /\ Converged(n, id)
        /\ OutboxRow(outbox[n], id).attempts > 0
        /\ log[n][id].status = "delivered"

\* C10: the ids a pull tick posts to ack are the ids of the picked-up
\* messages that were parsed and went through receive; a picked-up message
\* that failed is not in the ack, and the tick leaves it at the relay.
PullStep(n) == pull'[n] # pull[n]

C10_AckOnlyProcessed ==
    /\ [](\A n \in Nodes :
            pull[n].pc = "ack" =>
                LET ms == pull[n].messages
                    ok == {k \in DOMAIN ms : Parses(ms[k].encrypted_envelope)}
                IN  /\ {pull[n].acked_ids[k] : k \in DOMAIN pull[n].acked_ids}
                         = {ms[k].msg_id : k \in ok}
                    /\ Len(pull[n].acked_ids) = Cardinality(ok)
                    /\ \A k \in ok : log[n][ms[k].msg_id].direction = "inbound")
    /\ [][\A n \in Nodes :
            PullStep(n) =>
                \A k \in DOMAIN held :
                    /\ held[k].recipient_fingerprint = fingerprint(n)
                    /\ ~Parses(held[k].encrypted_envelope)
                    => \E j \in DOMAIN held' : held'[j] = held[k]]_vars

\* a tick that picked up a malformed blob and an envelope, about to ack
C10_Witness ==
    \E n \in Recipients :
        /\ pull[n].pc = "ack"
        /\ \E k \in DOMAIN pull[n].messages :
                ~Parses(pull[n].messages[k].encrypted_envelope)
        /\ relay_up

\* C15: a message the relay holds for recipient R, not expired, with the
\* relay reachable from then on and R's pull loop running, is in the end an
\* inbound row of R and no longer held by the relay.
HeldFor(n, id) ==
    \E k \in DOMAIN held :
        /\ held[k].msg_id = id
        /\ held[k].recipient_fingerprint = fingerprint(n)
        /\ held[k].expires_at > now

PulledAndAcked(n, id) ==
    /\ log[n][id].direction = "inbound"
    /\ \A k \in DOMAIN held : held[k].msg_id # id

C15_OfflineRelayDelivery ==
    \A n \in Recipients, id \in MsgIds :
        [](HeldFor(n, id) /\ []relay_up => <>PulledAndAcked(n, id))

\* a message the sender handed to the relay, pulled by the recipient and
\* deleted at the relay by its ack
C15_Witness ==
    \E n \in Recipients, id \in MsgIds :
        /\ PulledAndAcked(n, id)
        /\ sends[id].final.status = "relayed"
        /\ pull[n].pc = "sleep"

\* the payload is the sealed form
SealedForm(payload) ==
    /\ payload.intent = "encrypted"
    /\ payload.subject = "[encrypted]"
    /\ "sealed_to" \in DOMAIN payload.body

\* C16: every envelope the relay holds for a send requested with
\* encrypt=true is sealed, whether send deposited it or the retry loop did.
C16_RelayOpacity ==
    \A k \in DOMAIN held :
        held[k].msg_id \in MsgIds /\ sends[held[k].msg_id].encrypt =>
            /\ held[k].encrypted_envelope.encrypted
            /\ SealedForm(held[k].encrypted_envelope.payload)

\* what send composed before line 55
Composed ==
    MessagePayload("human_message", "hi", PlainBody)

\* C17: an envelope of send has encrypted true exactly when its payload is
\* the sealed form; send seals exactly when encrypt is true and a peer
\* record was resolved (locally or by the relay lookup), and otherwise
\* leaves the payload in the clear with encrypted false.
C17_EncryptedIffSealed ==
    /\ \A id \in MsgIds :
        LET s == sends[id]
            e == s.envelope
        IN  s.pc \in {"direct", "deposit", "done"} =>
              /\ e.encrypted <=> SealedForm(e.payload)
              /\ e.encrypted <=> (s.encrypt /\ s.peer # NoPeer)
              /\ e.encrypted =>
                    e.payload.body = encrypt_for(Composed, s.peer.encrypt_pubkey)
              /\ ~e.encrypted => e.payload = Composed
              /\ log[s.node][id].envelope = e
    /\ \A n \in Nodes : \A k \in DOMAIN outbox[n] :
            outbox[n][k].envelope_json = sends[outbox[n][k].msg_id].envelope
    /\ \A k \in DOMAIN held :
            held[k].encrypted_envelope = sends[held[k].msg_id].envelope

\* one send sealed to a peer the relay lookup resolved, and one send with
\* encrypt false to a known peer, left in the clear
C17_Witness ==
    \E i \in MsgIds, j \in MsgIds :
        /\ sends[i].pc = "done" /\ sends[j].pc = "done"
        /\ sends[i].envelope.encrypted /\ sends[i].peer.host = ""
        /\ ~sends[j].encrypt /\ sends[j].peer # NoPeer /\ ~sends[j].envelope.encrypted

Rows(hm) == {hm[k] : k \in DOMAIN hm}

\* the step is the request op of a client
ClientStep(op) == client' # client /\ client'.op = op

\* C20: a send that resolves its address by the relay lookup caches the
\* peer with host "" and port 0, is never delivered directly and ends in
\* relayed or queued; a send whose lookup misses or fails ends in queued,
\* and no exception leaves it.
C20_RelayOnlyPeer ==
    /\ [](\A id \in MsgIds :
            LET s == sends[id]
            IN  /\ s.pc # "raised"
                /\ s.lookup = "hit" =>
                      /\ s.peer.host = "" /\ s.peer.port = 0
                      /\ \A k \in DOMAIN s.route :
                            s.route[k].via = "direct" => ~s.route[k].ok
                      /\ s.pc = "done" => s.final.status \in {"relayed", "queued"}
                /\ s.lookup = "miss" =>
                      /\ s.peer = NoPeer
                      /\ s.pc = "done" /\ s.final.status = "queued")
    /\ [][\A id \in MsgIds :
            sends[id].lookup = "none" /\ sends'[id].lookup = "hit" =>
                \E p \in peers'[sends[id].node] :
                    /\ p.address = sends[id].envelope.to_addr
                    /\ p.node_id = registry[p.address.local].fingerprint
                    /\ p.host = "" /\ p.port = 0]_vars
    /\ [][\A n \in Senders, id \in MsgIds :
            /\ log'[n][id].direction = "outbound" /\ log'[n][id].status = "delivered"
            /\ ~(log[n][id].direction = "outbound" /\ log[n][id].status = "delivered")
            => \/ sends[id].pc = "direct" /\ sends[id].peer.port # 0
               \/ /\ retry[n].pc = "direct" /\ retry[n].peer.port # 0
                  /\ retry[n].pending[retry[n].i].msg_id = id]_vars

\* one send resolved by the relay lookup and relayed, one send whose lookup
\* gave nothing and that was queued
C20_Witness ==
    \E i \in MsgIds, j \in MsgIds :
        /\ sends[i].pc = "done" /\ sends[j].pc = "done"
        /\ sends[i].lookup = "hit" /\ sends[i].final.status = "relayed"
        /\ sends[j].lookup = "miss" /\ sends[j].final.status = "queued"

\* ------------------------------------------------------ inbox claims
\* the row receive stores for the envelope, whatever its signature
Unsigned(row) == [row EXCEPT !.envelope = [row.envelope EXCEPT !.signature = NoSignature]]

\* C18: receive stores an envelope whose signature fails against the cached
\* key of from_addr, and an envelope of a sender with no cached key, as
\* inbound, the same row a correctly signed envelope gets.
C18_SignatureNeverRejects ==
    [][ClientStep("inbox") =>
        LET n == client'.request.node
            e == client'.request.envelope
            signed == [e EXCEPT !.signature =
                        sign(e.from_addr.local,
                             <<e.msg_id, e.from_addr, e.to_addr, e.sent_at>>)]
            expected == receive(n, peers[n], log[n], signed)[e.msg_id]
        IN  /\ log'[n][e.msg_id].direction = "inbound"
            /\ Unsigned(log'[n][e.msg_id]) = Unsigned(expected)
            /\ log[n][e.msg_id].direction # "inbound" =>
                    log'[n][e.msg_id].envelope.signature = e.signature
            /\ client'.answer = [status |-> "ok", msg_id |-> e.msg_id]]_vars

\* an inbound row with a signature that is not the sender's, stored while
\* the sender's key was cached
C18_Witness ==
    /\ client.op = "inbox"
    /\ LET n == client.request.node
           e == client.request.envelope
           peer == get_peer_by_address(peers[n], e.from_addr)
       IN  /\ peer # NoPeer
           /\ e.signature # NoSignature
           /\ ~verify(<<e.msg_id, e.from_addr, e.to_addr, e.sent_at>>, e.signature,
                      peer.pubkey)
           /\ log[n][e.msg_id].direction = "inbound"
           /\ log[n][e.msg_id].envelope.signature = e.signature

\* C19: an envelope with encrypted true and intent encrypted, received
\* while the node has no inbound row of its msg_id: when the payload opens,
\* the row carries the decrypted payload and encrypted false; when it does
\* not, the row is stored with the sealed payload and encrypted true.
C19_DecryptOrKeep ==
    [][ClientStep("inbox") =>
        LET n == client'.request.node
            e == client'.request.envelope
            row == log'[n][e.msg_id]
            opens == /\ CanDecrypt(n, e.payload.body)
                     /\ IsPayload(e.payload.body.plain)
        IN  /\ e.encrypted /\ e.payload.intent = "encrypted"
            /\ log[n][e.msg_id].direction # "inbound"
            => /\ row.direction = "inbound"
               /\ opens => /\ row.envelope.payload = e.payload.body.plain
                           /\ ~row.envelope.encrypted
               /\ ~opens => row.envelope = e]_vars

\* a row stored sealed, because the payload was sealed to another key
C19_Witness ==
    /\ client.op = "inbox"
    /\ LET n == client.request.node
           e == client.request.envelope
       IN  /\ e.encrypted
           /\ ~CanDecrypt(n, e.payload.body)
           /\ log[n][e.msg_id].direction = "inbound"
           /\ log[n][e.msg_id].envelope = e
    /\ \E n \in Recipients, id \in MsgIds :
           /\ log[n][id].direction = "inbound"
           /\ ~log[n][id].envelope.encrypted
           /\ log[n][id].envelope.payload.intent # "encrypted"
           /\ id # client.request.envelope.msg_id

\* ------------------------------------------------------ relay claims

\* C11: a message held for recipient R stays held, and is returned by
\* pickup(R) and by no other pickup, until R acknowledges it or its
\* expires_at passes; nothing issued for another recipient or another
\* message removes it.
C11_HeldUntilAckOrExpiry ==
    /\ [](\A k \in DOMAIN held :
            held[k].expires_at > now =>
                \A fp \in Fingerprints :
                    RelayMessage(held[k]) \in Rows(RelayPickup(held, fp, 0, now))
                        <=> fp = held[k].recipient_fingerprint)
    /\ [][\A k \in DOMAIN held :
            LET r == held[k]
                acked == /\ ClientStep("ack")
                         /\ client'.request.recipient_fingerprint = r.recipient_fingerprint
                         /\ r.msg_id \in client'.request.msg_ids
                again == /\ ClientStep("deposit")
                         /\ client'.request.recipient_fingerprint = r.recipient_fingerprint
                         /\ client'.request.msg_id = r.msg_id
            IN  ~acked /\ ~again /\ r.expires_at > now' => r \in Rows(held')]_vars

\* what the store does hold to: the row stays unless a deposit of any
\* recipient reuses its msg_id
C11_HeldUnlessMsgIdReused ==
    [][\A k \in DOMAIN held :
        LET r == held[k]
            acked == /\ ClientStep("ack")
                     /\ client'.request.recipient_fingerprint = r.recipient_fingerprint
                     /\ r.msg_id \in client'.request.msg_ids
            reused == ClientStep("deposit") /\ client'.request.msg_id = r.msg_id
        IN  ~acked /\ ~reused /\ r.expires_at > now' => r \in Rows(held')]_vars

\* C12: ack(R, ids) deletes the held rows whose msg_id is in ids and whose
\* recipient is R, and no other row; removed is the number of rows deleted.
C12_AckScoped ==
    [][ClientStep("ack") =>
        LET fp == client'.request.recipient_fingerprint
            ids == client'.request.msg_ids
            gone == {k \in DOMAIN held :
                        held[k].msg_id \in ids /\ held[k].recipient_fingerprint = fp}
        IN  /\ Rows(held') = {held[k] : k \in DOMAIN held \ gone}
            /\ Len(held') = Len(held) - Cardinality(gone)
            /\ \A k \in DOMAIN held :
                    held[k].recipient_fingerprint # fp => held[k] \in Rows(held')
            /\ client'.answer.removed = Len(held) - Len(held')]_vars

\* an ack that removed a row and named the msg_id of a row held for
\* another recipient, which is still there
C12_Witness ==
    /\ client.op = "ack"
    /\ client.answer.removed = 1
    /\ \E k \in DOMAIN held :
            /\ held[k].msg_id \in client.request.msg_ids
            /\ held[k].recipient_fingerprint # client.request.recipient_fingerprint

\* C13: pickup(recipient, since) returns the held messages of the recipient
\* with deposited_at > since and expires_at > now, in the order of
\* deposited_at, and changes nothing in the store.
C13_PickupExact ==
    [][ClientStep("pickup") =>
        LET fp == client'.request.recipient_fingerprint
            since == client'.request.since
            ms == client'.answer.messages
            want == {k \in DOMAIN held :
                        /\ held[k].recipient_fingerprint = fp
                        /\ held[k].deposited_at > since
                        /\ held[k].expires_at > now}
        IN  /\ Rows(ms) = {RelayMessage(held[k]) : k \in want}
            /\ Len(ms) = Cardinality(want)
            /\ \A i \in DOMAIN ms, j \in DOMAIN ms :
                    i < j => ms[i].deposited_at <= ms[j].deposited_at
            /\ \A i \in DOMAIN ms : ms[i].expires_at > now
            /\ client'.answer.count = Len(ms)
            /\ held' = held
            /\ registry' = registry]_vars

\* a pickup that returned one message and left out a message of the same
\* recipient whose expires_at has passed
C13_Witness ==
    /\ client.op = "pickup"
    /\ Len(client.answer.messages) = 1
    /\ \E k \in DOMAIN held :
            /\ held[k].recipient_fingerprint = client.request.recipient_fingerprint
            /\ held[k].deposited_at > client.request.since
            /\ held[k].expires_at <= now

\* C14: a round of cleanup deletes the held messages whose expires_at is
\* before the current time, all of them and no other.
C14_CleanupExact ==
    /\ [](swept = now => \A k \in DOMAIN held : ~(held[k].expires_at < now))
    /\ [][swept' # swept \/ (client' = client /\ now' = now) =>
            LET stay == {k \in DOMAIN held : ~(held[k].expires_at < now)}
            IN  /\ Rows(held') = {held[k] : k \in stay}
                /\ Len(held') = Cardinality(stay)]_vars

\* right after a round that deleted the last deposit of a client and kept
\* a message that has not expired
C14_Witness ==
    /\ swept = now
    /\ client.op = "deposit"
    /\ \A k \in DOMAIN held : held[k].msg_id # client.request.msg_id
    /\ \E k \in DOMAIN held : held[k].expires_at >= now


\* ---------------------------------------------------------------- C21
\* Two names are the same when they differ in case only.
CaseClasses == {{n, Capital[n]} : n \in Nodes}
SameName(a, b) == \E c \in CaseClasses : a \in c /\ b \in c
Registration(n) ==
    [fingerprint |-> fingerprint(n), pubkey |-> pubkey_b64(n),
     encrypt_pubkey |-> encrypt_pubkey_b64(n)]
\* what GET /v0/lookup/{name} would answer in the directory reg
Answer(reg, name) ==
    IF RelayLookup(reg, name) = NoEntry THEN [status_code |-> 404]
    ELSE RelayLookup(reg, name)

\* C21: a registration becomes the answer of lookup for every spelling of
\* its name and changes the answer for no other name; lookup answers what the
\* latest such registration left, and 404 when there was none; rows are kept
\* under lower-cased names only.
C21_DirectoryLastWriterWins ==
    /\ [][ClientStep("register") =>
            \A m \in Names :
                Answer(registry', m) =
                    IF SameName(m, client'.request.name)
                    THEN CHOOSE r \in {Registration(n) : n \in Nodes} :
                             r.fingerprint = client'.request.fingerprint
                    ELSE Answer(registry, m)]_vars
    /\ [][ClientStep("lookup") =>
            /\ registry' = registry
            /\ client'.answer = Answer(registry, client'.request.name)
            /\ \A m \in Names : SameName(m, client'.request.name) =>
                    Answer(registry, m) = client'.answer]_vars
    /\ [][(\A m \in Names : registry[m] = NoEntry) /\ ClientStep("lookup") =>
            client'.answer = [status_code |-> 404]]_vars
    /\ [](\A m \in Names \ Nodes : registry[m] = NoEntry)

\* a lookup under another spelling answered the later of two registrations
C21_Witness ==
    /\ client.op = "lookup"
    /\ client.request.name = "bob"
    /\ client.answer = Registration("alice")
    /\ registry["bob"] = Registration("alice")
    /\ registry["alice"] = Registration("bob")


\* ---------------------------------------------------------------- C22
\* C22: a row of the message log that is outbound stays outbound, whatever
\* the node receives afterwards.
C22_OutboundRecordKept ==
    [][\A n \in Nodes, id \in MsgIds :
            log[n][id].direction = "outbound" => log'[n][id].direction = "outbound"]_vars


\* ---------------------------------------------------------------- C23
\* C23: the peers table of a node never holds a row whose node_id is the
\* node's own fingerprint, and a service that resolves to the node's own
\* node_id leaves the table as it was.
C23_NoSelfPeer ==
    /\ [](\A n \in Nodes : \A p \in peers[n] : p.node_id # fingerprint(n))
    /\ [][\A n \in Nodes :
            /\ ClientStep("Added")
            /\ client'.request.node = n
            /\ client'.request.info.node_id = fingerprint(n)
            => peers'[n] = peers[n]]_vars

\* the node's own service resolved while the table held another peer
C23_Witness ==
    /\ client.op = "Added"
    /\ client.request.info.node_id = fingerprint(client.request.node)
    /\ peers[client.request.node] # {}


\* ---------------------------------------------------------------- C24
\* a step leaves every row in place or replaces it by a row of its node_id
RowsStay ==
    \A n \in Nodes : \A p \in peers[n] :
        p \in peers'[n] \/ \E q \in peers'[n] : q.node_id = p.node_id
OnePerNodeId ==
    \A n \in Nodes : \A p \in peers[n] : \A q \in peers[n] :
        p.node_id = q.node_id => p = q
PeerAddresses == {Address(n) : n \in Nodes} \cup {BareName(n) : n \in Nodes}

\* C24 as stated: a removal event leaves the table unchanged, a row goes
\* only when an upsert of its node_id replaces it, some address lookup
\* returns every row of the table, and no two rows share a node_id.
C24_PeerResolvable ==
    /\ [][ClientStep("Removed") => peers' = peers]_vars
    /\ [][RowsStay]_vars
    /\ [](\A n \in Nodes : \A p \in peers[n] :
            \E a \in PeerAddresses : get_peer_by_address(peers[n], a) = p)
    /\ []OnePerNodeId

\* C24 amended: a removal event leaves the table unchanged, a row goes only
\* when an upsert of its node_id replaces it, no two rows share a node_id,
\* and a lookup of a row's address returns a row of that address, which is
\* the row itself when no row of another node_id carries the same address.
C24_PeerKept ==
    /\ [][ClientStep("Removed") => peers' = peers]_vars
    /\ [][RowsStay]_vars
    /\ [](\A n \in Nodes : \A p \in peers[n] :
            LET found == get_peer_by_address(peers[n], p.address)
            IN  /\ found \in peers[n]
                /\ found.address = p.address
                /\ (\A q \in peers[n] : q.address = p.address => q = p) => found = p)
    /\ []OnePerNodeId

\* a service went away whose row the table holds, next to a row of another
\* node_id under the same address
C24_Witness ==
    /\ client.op = "Removed"
    /\ \E p \in peers[client.request.node] :
            /\ p.node_id = client.request.info.node_id
            /\ p.node_name = client.request.info.node_name
            /\ \E q \in peers[client.request.node] : q # p /\ q.address = p.address


\* ---------------------------------------------------------------- C25
\* the retry loop sleeps and its next tick finds no entry with a known peer
TickIdle(n) ==
    /\ retry[n].pc = "sleep"
    /\ Advance([Sleeping EXCEPT !.pending = get_pending_outbox(outbox[n])],
               peers[n], 1, TRUE) = Sleeping

\* C25: each node has one retry loop, and one pull loop when it has a
\* relay; a retry tick that raised is followed by the sleep of the loop and by
\* a tick that reaches an outbox entry again (unless none is left that has a
\* peer), and a pull tick that got to its ack, whether the
\* ack raises or not, ends in the sleep the next tick starts from.
C25_LoopsSurvive ==
    /\ [](\A n \in Nodes :
            /\ retry[n].pc \in {"sleep", "direct", "deposit", "raised"}
            /\ pull[n].pc \in {"sleep", "ack"}
            /\ pull[n].pc = "ack" => relay_url[n])
    /\ \A n \in Nodes : (retry[n].pc = "raised") ~> (retry[n].pc = "sleep")
    /\ \A n \in Nodes : (retry[n].pc = "raised") ~> (retry[n].pc = "direct" \/ TickIdle(n))
    /\ \A n \in Nodes : (pull[n].pc = "ack" /\ ~relay_up) ~> (pull[n].pc = "sleep")

\* a retry tick of one node has raised while the ack of a pull tick of the
\* other is about to fail
C25_Witness ==
    /\ \E n \in Nodes : retry[n].pc = "raised"
    /\ \E n \in Nodes : pull[n].pc = "ack" /\ ~relay_up


\* ---------------------------------------------------------------- C26
\* the envelope e is the one send composed under its msg_id, with the
\* signature of its sender over msg_id, from_addr, to_addr and sent_at
SignedAsComposed(e) ==
    /\ e.msg_id \in MsgIds
    /\ sends[e.msg_id].pc # "none"
    /\ e.from_addr = Address(sends[e.msg_id].node)
    /\ e.sent_at = sends[e.msg_id].envelope.sent_at
    /\ e.signature = sends[e.msg_id].envelope.signature
    /\ verify(<<e.msg_id, e.from_addr, e.to_addr, e.sent_at>>, e.signature,
              pubkey_b64(sends[e.msg_id].node))

\* C26: every envelope a peer took, every envelope the relay holds for a
\* node's msg_id and every envelope waiting in an outbox carries the msg_id,
\* the sent_at and the signature send gave it, and the signature verifies
\* over msg_id, from_addr, to_addr and sent_at under the sender's key.
C26_DispatchedAsSigned ==
    /\ \A n \in Nodes : \A id \in MsgIds :
            log[n][id].direction = "inbound" => SignedAsComposed(log[n][id].envelope)
    /\ \A k \in DOMAIN held :
            held[k].msg_id \in MsgIds => SignedAsComposed(held[k].encrypted_envelope)
    /\ \A n \in Nodes : \A k \in DOMAIN outbox[n] :
            SignedAsComposed(outbox[n][k].envelope_json)

\* the retry loop has dispatched one envelope to the peer and one to the relay
C26_Witness ==
    \E n \in Senders : \E id1 \in MsgIds : \E id2 \in MsgIds :
        /\ OutboxRow(outbox[n], id1).status = "sent"
        /\ OutboxRow(outbox[n], id2).status = "sent"
        /\ \E p \in Recipients : log[p][id1].direction = "inbound"
        /\ \E k \in DOMAIN held : held[k].msg_id = id2


\* ---------------------------------------------------------------- C27
\* C27: verify returns, and it returns true exactly for the data an identity
\* signed, the signature text sign gave and the pubkey text of that identity;
\* any other data, signature text or key text gives false.
C27_SignVerifyRoundTrip ==
    client.op = "verify" =>
        /\ ~client.answer.raised
        /\ client.answer.value <=>
                \E i \in Identities :
                    /\ client.request.signature = sign(i, client.request.data)
                    /\ client.request.pubkey = pubkey_b64(i)

KeysOfFile(seed, file) ==
    /\ pubkey_b64(seed) = file.verify_key
    /\ encrypt_pubkey_b64(seed) = file.encrypt_pubkey
    /\ fingerprint(seed) = FingerprintOfKey(file.verify_key)

\* C29: a start that finds an identity file leaves the file as it is and
\* gives the identity whose keys and fingerprint the file has recorded since it
\* was created; a file is never rewritten while it exists; a running process
\* has the keys of the file at its path.
C29_FingerprintStable ==
    /\ [][\A n \in Nodes :
            identity_file[n].exists /\ identity[n] = NoIdentity /\ identity'[n] # NoIdentity
            => /\ identity_file'[n] = identity_file[n]
               /\ ~identity'[n].created
               /\ KeysOfFile(identity'[n].seed, identity_file[n])]_vars
    /\ [][\A n \in Nodes :
            identity_file[n].exists /\ identity_file'[n].exists
            => identity_file'[n] = identity_file[n]]_vars
    /\ [](\A n \in Nodes :
            identity[n] # NoIdentity /\ identity_file[n].exists
            => KeysOfFile(identity[n].seed, identity_file[n]))

\* a process runs on an identity that an earlier process created
C29_Witness ==
    \E n \in Nodes :
        /\ identity[n].seed \in FreshSeeds
        /\ ~identity[n].created
        /\ identity_file[n] = save(identity[n].seed)


\* ---------------------------------------------------------------- C30
\* the relay row r is gone after the step: no row of its msg_id for its
\* recipient is left
Deleted(r) ==
    ~\E j \in DOMAIN held' :
        /\ held'[j].msg_id = r.msg_id
        /\ held'[j].recipient_fingerprint = r.recipient_fingerprint

\* the row of node n's messages table for the envelope e, as receive stores it
Stored(n, e) ==
    /\ log[n][e.msg_id].direction = "inbound"
    /\ log[n][e.msg_id].envelope.msg_id = e.msg_id
    /\ log[n][e.msg_id].envelope.from_addr = e.from_addr
    /\ log[n][e.msg_id].envelope.to_addr = e.to_addr
    /\ log[n][e.msg_id].envelope.sent_at = e.sent_at
    /\ log[n][e.msg_id].envelope.signature = e.signature

\* C30: whenever a step deletes a relay row that holds an envelope for
\* node n, the messages table of n has held an inbound row for that envelope
\* since before the step, and the step leaves that row in place.
C30_StoredBeforeAck ==
    [][\A k \in DOMAIN held : \A n \in Nodes :
            /\ held[k].recipient_fingerprint = fingerprint(n)
            /\ Parses(held[k].encrypted_envelope)
            /\ Deleted(held[k])
            => /\ Stored(n, held[k].encrypted_envelope)
               /\ log'[n] = log[n]
               /\ PullStep(n)]_vars

\* the recipient's ack has emptied the relay of an envelope that it holds
\* opened in its messages table
C30_Witness ==
    \E n \in Recipients : \E id \in MsgIds :
        /\ pull[n] = Waiting
        /\ held = <<>>
        /\ \E k \in DOMAIN sends[id].route : sends[id].route[k] = [via |-> "relay", ok |-> TRUE]
        /\ log[n][id].direction = "inbound"
        /\ ~log[n][id].envelope.encrypted
        /\ link[n] = "down"


\* ---------------------------------------------------------------- C31
\* C31: between the steps of send and of the retry loop, a msg_id has a
\* pending outbox entry exactly when its row of the messages table is
\* outbound with status queued, and an outbound row with status delivered
\* or relayed has no pending entry.
C31_OutboxLogAgreement ==
    \A n \in Nodes : \A id \in MsgIds :
        LET row == log[n][id]
        IN  /\ Pending(n, id) <=> (row.direction = "outbound" /\ row.status = "queued")
            /\ row.direction = "outbound" /\ row.status \in {"delivered", "relayed"}
               => ~Pending(n, id)

\* ---------------------------------------------------------------- C32
\* the retry loop of n is at an attempt for msg_id id
Attempting(n, id) ==
    /\ retry[n].pc \in {"direct", "deposit"}
    /\ retry[n].pending[retry[n].i].msg_id = id

Count(q, id) == Len(SelectSeq(q, LAMBDA x : x = id))

\* C32: an outbox entry marked sent stays in the outbox with status sent, and
\* from then on neither send nor the retry loop attempts its msg_id, and no
\* peer and no relay accepts it from the node again.
C32_SentIsAbsorbing ==
    /\ [](\A n \in Nodes : \A id \in MsgIds :
            OutboxRow(outbox[n], id).status = "sent" =>
                /\ ~Attempting(n, id)
                /\ sends[id].pc \notin {"lookup", "direct", "deposit"})
    /\ [][\A n \in Nodes : \A id \in MsgIds :
            OutboxRow(outbox[n], id).status = "sent" =>
                /\ OutboxRow(outbox'[n], id).status = "sent"
                /\ Count(dispatched'[n], id) = Count(dispatched[n], id)]_vars

\* one entry is sent, and a tick that began after that is at another entry
C32_Witness ==
    \E n \in Senders : \E id1 \in MsgIds : \E id2 \in MsgIds :
        /\ OutboxRow(outbox[n], id1).status = "sent"
        /\ Count(dispatched[n], id1) = 1
        /\ Attempting(n, id2)
        /\ \A k \in DOMAIN retry[n].pending : retry[n].pending[k].msg_id # id1

\* ---------------------------------------------------------------- C33
\* the relay holds msg_id id, deposited by send for a peer record that
\* carries the signing key of node n
DepositedForKeyOf(n, id) ==
    /\ sends[id].peer # NoPeer
    /\ b64decode(sends[id].peer.pubkey) = b64decode(pubkey_b64(n))
    /\ \E k \in DOMAIN held : held[k].msg_id = id

\* C33: a deposit names as its recipient the fingerprint of the signing key
\* in the peer record, which is the fingerprint the owner of the key picks up
\* and acks with: the pickup of that node returns every message deposited
\* for its key, and receive stores it, whatever node_id and name the record
\* has.
C33_HandleOfKey ==
    /\ [](\A n \in Nodes : \A id \in MsgIds :
            DepositedForKeyOf(n, id) =>
                \A k \in DOMAIN held :
                    held[k].msg_id = id => held[k].recipient_fingerprint = fingerprint(n))
    /\ [][\A n \in Nodes : \A id \in MsgIds :
            DepositedForKeyOf(n, id) /\ PullStep(n) /\ pull[n].pc = "sleep" =>
                /\ \E k \in DOMAIN pull'[n].messages : pull'[n].messages[k].msg_id = id
                /\ log'[n][id].direction = "inbound"
                /\ pull'[n].pc = "ack"]_vars

\* bob is about to ack a message that was deposited for a record with the
\* node_id of a third machine, the name alice, and his key in another spelling
C33_Witness ==
    \E id \in MsgIds :
        /\ pull["bob"].pc = "ack"
        /\ \E k \in DOMAIN pull["bob"].acked_ids : pull["bob"].acked_ids[k] = id
        /\ DepositedForKeyOf("bob", id)
        /\ sends[id].peer.node_id = fingerprint("carol")
        /\ sends[id].peer.node_name = "alice"
        /\ sends[id].peer.pubkey = Relaxed(pubkey_b64("bob"))

\* ---------------------------------------------------------------- C34
\* the record has a LAN address
OnLan(p) == p.host # "" /\ p.port # RelayOnlyPort

\* C34: a peer record with a non-empty host and a non-zero port is never
\* replaced by the record a relay directory lookup makes: after every step
\* of a send the peers table still has a record of that node_id with a host
\* and a port.
C34_LanPeerKept ==
    [][\A n \in Nodes : \A p \in peers[n] :
            OnLan(p) => \E q \in peers'[n] : q.node_id = p.node_id /\ OnLan(q)]_vars

\* ---------------------------------------------------------------- C35
\* C35: no row of a node's peers table has the node's own fingerprint as its
\* node_id, whether discovery or a relay directory lookup wrote it, and no
\* send and no retry of the node works on a peer record of the node itself.
C35_NeverItself ==
    /\ \A n \in Nodes : \A p \in peers[n] : p.node_id # fingerprint(n)
    /\ \A id \in MsgIds :
            sends[id].peer # NoPeer => sends[id].peer.node_id # fingerprint(sends[id].node)
    /\ \A n \in Nodes :
            retry[n].pc \in {"direct", "deposit"} => retry[n].peer.node_id # fingerprint(n)
    /\ \A k \in DOMAIN held :
            held[k].sender_fingerprint # held[k].recipient_fingerprint

\* ---------------------------------------------------------------- C36
\* the send call that composed id is between its lookup and its return
InSend(id) == sends[id].pc \in {"lookup", "direct", "deposit"}

\* C36: the retry loop is never at an entry whose send call has not
\* returned; an entry queued while a tick is under way is not in the list
\* that tick works on; and a tick goes through its list forward, one attempt
\* (direct, then relay) for each entry, the list holding a msg_id once.
C36_NoDoubleDispatch ==
    /\ [](\A n \in Nodes : \A id \in MsgIds : Attempting(n, id) => ~InSend(id))
    /\ [](\A n \in Nodes : \A j \in DOMAIN retry[n].pending : \A k \in DOMAIN retry[n].pending :
            j # k => retry[n].pending[j].msg_id # retry[n].pending[k].msg_id)
    /\ [][\A n \in Nodes :
            /\ \A id \in MsgIds :
                    /\ retry[n].pc # "sleep"
                    /\ OutboxRow(outbox[n], id).status # "pending"
                    /\ OutboxRow(outbox'[n], id).status = "pending"
                    => \A k \in DOMAIN retry'[n].pending : retry'[n].pending[k].msg_id # id
            /\ retry[n].pc \in {"direct", "deposit"} /\ retry'[n].pc \in {"direct", "deposit"}
               => /\ retry'[n].pending = retry[n].pending
                  /\ \/ retry'[n] = retry[n]
                     \/ retry'[n].i > retry[n].i
                     \/ /\ retry[n].pc = "direct" /\ retry'[n].pc = "deposit"
                        /\ retry'[n].i = retry[n].i]_vars

\* a tick is at one of its entries while a send has returned with another
\* envelope queued, which is not in the tick's list
C36_Witness ==
    \E n \in Senders : \E id \in MsgIds :
        /\ retry[n].pc \in {"direct", "deposit"}
        /\ Pending(n, id)
        /\ sends[id].pc = "done"
        /\ \A k \in DOMAIN retry[n].pending : retry[n].pending[k].msg_id # id

\* ---------------------------------------------------------------- C37
\* C37: a tick of the retry loop ends only when every entry of its list
\* whose destination has a peer record has been attempted: when the loop
\* goes back to sleep, no entry after the last one it tried has a peer
\* record, however the attempts before went.
C37_NoHeadOfLineBlocking ==
    [][\A n \in Nodes :
            retry[n].pc # "sleep" /\ retry'[n].pc = "sleep" =>
                \A k \in DOMAIN retry[n].pending :
                    k > retry[n].i =>
                        get_peer_by_address(peers[n], retry[n].pending[k].envelope_json.to_addr)
                            = NoPeer]_vars

\* ---------------------------------------------------------------- C38
\* the send of id found no peer record and no directory row, its envelope
\* waits in the outbox, and the directory now has a row for the recipient
QueuedOnMissNowRegistered(n, id) ==
    /\ sends[id].lookup = "miss"
    /\ sends[id].node = n
    /\ Pending(n, id)
    /\ RelayLookup(registry, sends[id].envelope.to_addr.local) # NoEntry

\* C38: an envelope queued after a lookup miss is in the end sent (relayed
\* or delivered) once the recipient has registered, when the relay answers
\* from then on, every send call has returned, and the retry loop keeps
\* ticking.
C38_QueuedThenRegistered ==
    \A n \in Senders : \A id \in MsgIds :
        [](/\ QueuedOnMissNowRegistered(n, id)
           /\ []relay_up
           /\ [](\A other \in MsgIds : ~InSend(other))
           => <>(OutboxRow(outbox[n], id).status = "sent"))

====
